---- MODULE Spec2Model ----
(***************************************************************************)
(* A model of the cleaning engine of src/02_etl_pipeline.py (DataCleaner). *)
(*                                                                         *)
(* A DataFrame is [dtype, rows]: dtype maps each column name to its pandas *)
(* dtype ("object", "float64", "bool") and rows is the sequence of rows in *)
(* index order, each a function from column name to a cell.  A cell is a   *)
(* record [t, s, n]: t is "null" (None/NaN), "str", "num" or "bool"; s is  *)
(* the text of a string as a sequence of one-character strings; n is the   *)
(* value of a number in hundredths (1234.56 is 123456) or 0/1 for a bool.  *)
(* Date columns are not part of the modelled column universe: every date   *)
(* conversion of the code is guarded by `if field in df.columns`.          *)
(*                                                                         *)
(* run is the state of one ETLPipeline.run_pipeline call: its position,    *)
(* the datasets it holds, the database connection and the stored tables.   *)
(***************************************************************************)
EXTENDS Integers, Sequences, FiniteSets, TLC

VARIABLES entity, raw, df, pc, stages, pass, out1, run

vars == <<entity, raw, df, pc, stages, pass, out1, run>>

(* ------------------------------ bounds -------------------------------- *)

\* Largest number of rows of an input dataset.
MaxRows == 2

\* Largest number of rows of a customers dataset with ages.
MaxAgeRows == 4

\* Largest number of rows of a dataset of a whole run_pipeline call.
MaxRunRows == 1

\* The number of times the pipeline is run on the same raw files.
MaxRuns == 2

(* ------------------------------- cells -------------------------------- *)

Null == [t |-> "null", s |-> <<>>, n |-> 0]

Str(chars) == [t |-> "str", s |-> chars, n |-> 0]

Num(hundredths) == [t |-> "num", s |-> <<>>, n |-> hundredths]

Bool(b) == [t |-> "bool", s |-> <<>>, n |-> IF b THEN 1 ELSE 0]

\* Series.isna(): None and NaN are both missing; '' is not.
IsNa(c) == c.t = "null"

NotNa(c) == ~IsNa(c)

\* A whole number as a cell (7 is Num(700)).
Whole(k) == Num(k * 100)

\* Python equality of two hashable cells as the pandas hash tables see it:
\* all missing values are one key, True == 1 and False == 0.
PyKeyEq(a, b) ==
    \/ IsNa(a) /\ IsNa(b)
    \/ a.t = "str" /\ b.t = "str" /\ a.s = b.s
    \/ a.t \in {"num", "bool"} /\ b.t \in {"num", "bool"}
         /\ (IF a.t = "bool" THEN a.n * 100 ELSE a.n)
              = (IF b.t = "bool" THEN b.n * 100 ELSE b.n)

(* ------------------------------ frames -------------------------------- *)

Cols(d) == DOMAIN d.dtype

Column(d, c) == [i \in 1..Len(d.rows) |-> d.rows[i][c]]

\* The dtype pandas gives a column holding `cells` when nothing forces
\* another: numbers (with NaN) are float64, booleans without a missing value
\* are bool, anything else is object.  emptyIsFloat: read_csv makes an
\* all-missing column float64, DataFrame(list of dicts) makes it object.
InferDtype(cells, emptyIsFloat) ==
    LET present == {i \in DOMAIN cells : NotNa(cells[i])}
    IN  IF present = {}
          THEN (IF emptyIsFloat /\ DOMAIN cells # {} THEN "float64" ELSE "object")
        ELSE IF \A i \in present : cells[i].t = "num" THEN "float64"
        ELSE IF present = DOMAIN cells /\ \A i \in present : cells[i].t = "bool"
          THEN "bool"
        ELSE "object"

\* df[c] = cells (a new or replaced column) with the given dtype.
SetColumn(d, c, cells, dt) ==
    [dtype |-> (c :> dt) @@ d.dtype,
     rows  |-> [i \in 1..Len(d.rows) |-> (c :> cells[i]) @@ d.rows[i]]]

(* --------------------------- Field Unifier ----------------------------- *)

\* The field_mappings literals of the three clean_* functions, in dict
\* order: canonical name and its source_fields list.
CustomersFieldMappings ==
    << [target |-> "email",             sources |-> <<"email", "email_address">>],
       [target |-> "phone",             sources |-> <<"phone", "phone_number">>],
       [target |-> "customer_id",       sources |-> <<"customer_id", "cust_id">>],
       [target |-> "full_name",         sources |-> <<"full_name", "customer_name">>],
       [target |-> "zip_code",          sources |-> <<"zip_code", "postal_code">>],
       [target |-> "registration_date", sources |-> <<"registration_date", "reg_date">>],
       [target |-> "status",            sources |-> <<"status", "customer_status">>] >>

OrdersFieldMappings ==
    << [target |-> "order_id",     sources |-> <<"order_id", "ord_id">>],
       [target |-> "customer_id",  sources |-> <<"customer_id", "cust_id">>],
       [target |-> "product_id",   sources |-> <<"product_id", "item_id">>],
       [target |-> "quantity",     sources |-> <<"quantity", "qty">>],
       [target |-> "unit_price",   sources |-> <<"unit_price", "price">>],
       [target |-> "total_amount", sources |-> <<"total_amount", "order_total">>],
       [target |-> "status",       sources |-> <<"status", "order_status">>] >>

ProductsFieldMappings ==
    << [target |-> "product_id",     sources |-> <<"product_id", "item_id">>],
       [target |-> "product_name",   sources |-> <<"product_name", "item_name">>],
       [target |-> "category",       sources |-> <<"category", "product_category">>],
       [target |-> "brand",          sources |-> <<"brand", "manufacturer">>],
       [target |-> "price",          sources |-> <<"price", "list_price">>],
       [target |-> "stock_quantity", sources |-> <<"stock_quantity", "stock_level">>] >>

\* A mapping with two synonyms, to drive the inner loops of
\* _merge_redundant_fields past their first source field.
ProbeFieldMappings ==
    << [target |-> "canonical", sources |-> <<"canonical", "synonym_a", "synonym_b">>] >>

\* The dtype of a column after df.loc[mask, target] = values: unchanged when
\* nothing is assigned or every assigned value fits, object otherwise.
DtypeAfterAssign(dt, assigned) ==
    IF assigned = {} THEN dt
    ELSE IF dt = "float64" /\ \A c \in assigned : c.t = "num" THEN dt
    ELSE IF dt = "bool" /\ \A c \in assigned : c.t = "bool" THEN dt
    ELSE "object"

\* FillFromSource without the isna() half of its mask.
FillFromSourceOverwriting(d, target, source) ==
    LET mask == [i \in 1..Len(d.rows) |-> NotNa(d.rows[i][source])]
        cells == [i \in 1..Len(d.rows) |->
                    IF mask[i] THEN d.rows[i][source] ELSE d.rows[i][target]]
        assigned == {d.rows[i][source] : i \in {j \in 1..Len(d.rows) : mask[j]}}
    IN  SetColumn(d, target, cells, DtypeAfterAssign(d.dtype[target], assigned))

\* mask = df[target].isna() & df[source].notna();
\* df.loc[mask, target] = df.loc[mask, source]
FillFromSource(d, target, source) ==
    LET mask == [i \in 1..Len(d.rows) |->
                    IsNa(d.rows[i][target]) /\ NotNa(d.rows[i][source])]
        cells == [i \in 1..Len(d.rows) |->
                    IF mask[i] THEN d.rows[i][source] ELSE d.rows[i][target]]
        assigned == {d.rows[i][source] : i \in {j \in 1..Len(d.rows) : mask[j]}}
    IN  SetColumn(d, target, cells, DtypeAfterAssign(d.dtype[target], assigned))

\* The else branch: for source_field in source_fields, from position k on.
RECURSIVE MergeWithPriority(_, _, _, _)
MergeWithPriority(d, target, sources, k) ==
    IF k > Len(sources) THEN d
    ELSE IF sources[k] \in Cols(d) /\ sources[k] # target
      THEN MergeWithPriority(FillFromSource(d, target, sources[k]), target, sources, k + 1)
    ELSE MergeWithPriority(d, target, sources, k + 1)

\* CopyFirstAvailable without its break: the last available source field wins.
RECURSIVE CopyLastAvailable(_, _, _, _)
CopyLastAvailable(d, target, sources, k) ==
    IF k > Len(sources) THEN d
    ELSE IF sources[k] \in Cols(d) /\ sources[k] # target
      THEN CopyLastAvailable(
             SetColumn(d, target, Column(d, sources[k]), d.dtype[sources[k]]),
             target, sources, k + 1)
    ELSE CopyLastAvailable(d, target, sources, k + 1)

\* The if branch: the first available source field becomes the target.
RECURSIVE CopyFirstAvailable(_, _, _, _)
CopyFirstAvailable(d, target, sources, k) ==
    IF k > Len(sources) THEN d
    ELSE IF sources[k] \in Cols(d)
      THEN SetColumn(d, target, Column(d, sources[k]), d.dtype[sources[k]])
    ELSE CopyFirstAvailable(d, target, sources, k + 1)

\* MergeOneField without its else branch.
MergeOneFieldCopyOnly(d, m) ==
    IF m.target \notin Cols(d)
      THEN CopyFirstAvailable(d, m.target, m.sources, 1)
      ELSE d

MergeOneField(d, m) ==
    IF m.target \notin Cols(d)
      THEN CopyFirstAvailable(d, m.target, m.sources, 1)
      ELSE MergeWithPriority(d, m.target, m.sources, 1)

\* for target_field, source_fields in field_mappings.items(), from entry k on.
RECURSIVE MergeFrom(_, _, _)
MergeFrom(d, mappings, k) ==
    IF k > Len(mappings) THEN d
    ELSE MergeFrom(MergeOneField(d, mappings[k]), mappings, k + 1)

\* A frame without some of its columns.
DropColumns(d, gone) ==
    [dtype |-> [c \in Cols(d) \ gone |-> d.dtype[c]],
     rows  |-> [i \in 1..Len(d.rows) |-> [c \in Cols(d) \ gone |-> d.rows[i][c]]]]

\* MergeRedundantFields that merges the synonym columns away.
MergeRedundantFieldsDroppingSynonyms(d, mappings) ==
    DropColumns(MergeFrom(d, mappings, 1),
                UNION {{mappings[k].sources[j] : j \in 1..Len(mappings[k].sources)}
                          \ {mappings[k].target} : k \in 1..Len(mappings)})

MergeRedundantFields(d, mappings) == MergeFrom(d, mappings, 1)

(* ---------------------------- Type Coercer ----------------------------- *)

Digits == <<"0", "1", "2", "3", "4", "5", "6", "7", "8", "9">>

IsDigit(ch) == \E k \in 1..10 : Digits[k] = ch

DigitVal(ch) == (CHOOSE k \in 1..10 : Digits[k] = ch) - 1

\* The text without its leading and trailing blanks.
RECURSIVE StripLeft(_)
StripLeft(chars) ==
    IF chars # <<>> /\ Head(chars) = " " THEN StripLeft(Tail(chars)) ELSE chars

RECURSIVE StripRight(_)
StripRight(chars) ==
    IF chars # <<>> /\ chars[Len(chars)] = " "
      THEN StripRight(SubSeq(chars, 1, Len(chars) - 1)) ELSE chars

Strip(chars) == StripRight(StripLeft(chars))

\* The value of a run of decimal digits.
RECURSIVE DigitsValue(_)
DigitsValue(chars) ==
    IF chars = <<>> THEN 0
    ELSE DigitsValue(SubSeq(chars, 1, Len(chars) - 1)) * 10 + DigitVal(chars[Len(chars)])

\* The first two decimals of a fraction, in hundredths.
FractionHundredths(chars) ==
    IF chars = <<>> THEN 0
    ELSE IF Len(chars) = 1 THEN DigitVal(chars[1]) * 10
    ELSE DigitVal(chars[1]) * 10 + DigitVal(chars[2])

\* The number a text denotes for the float parser behind pd.to_numeric, or
\* Null when it denotes none: blanks around it, an optional sign, digits
\* with at most one decimal point and at least one digit.  No currency
\* symbol and no thousands separator is accepted.  (Exponents, inf and
\* fractions of more than two digits are outside the modelled inputs.)
ParseNumber(chars) ==
    LET body   == Strip(chars)
        signed == body # <<>> /\ Head(body) \in {"-", "+"}
        mag    == IF signed THEN Tail(body) ELSE body
        dots   == {k \in 1..Len(mag) : mag[k] = "."}
        point  == IF dots = {} THEN Len(mag) + 1 ELSE CHOOSE k \in dots : TRUE
        whole  == SubSeq(mag, 1, point - 1)
        frac   == SubSeq(mag, point + 1, Len(mag))
        wellFormed == /\ Cardinality(dots) <= 1
                      /\ \A k \in 1..Len(whole) : IsDigit(whole[k])
                      /\ \A k \in 1..Len(frac) : IsDigit(frac[k])
                      /\ Len(whole) + Len(frac) >= 1
        value  == DigitsValue(whole) * 100 + FractionHundredths(frac)
    IN  IF ~wellFormed THEN Null
        ELSE Num(IF signed /\ Head(body) = "-" THEN 0 - value ELSE value)

\* ToNumeric with errors='ignore': a text that denotes no number stays.
ToNumericKeepingText(c) ==
    CASE c.t = "num"  -> c
      [] c.t = "bool" -> Num(c.n * 100)
      [] c.t = "str"  -> (IF ParseNumber(c.s) = Null THEN c ELSE ParseNumber(c.s))
      [] OTHER        -> Null

\* One cell under pd.to_numeric(..., errors='coerce').
ToNumeric(c) ==
    CASE c.t = "num"  -> c
      [] c.t = "bool" -> Num(c.n * 100)
      [] c.t = "str"  -> ParseNumber(c.s)
      [] OTHER        -> Null

\* for field in numeric_fields: if field in df.columns:
\*     df[field] = pd.to_numeric(df[field], errors='coerce'), from field k on.
RECURSIVE CoerceNumericFields(_, _, _)
CoerceNumericFields(d, fields, k) ==
    IF k > Len(fields) THEN d
    ELSE IF fields[k] \in Cols(d)
      THEN CoerceNumericFields(
             SetColumn(d, fields[k],
                       [i \in 1..Len(d.rows) |-> ToNumeric(d.rows[i][fields[k]])],
                       "float64"),
             fields, k + 1)
    ELSE CoerceNumericFields(d, fields, k + 1)

CustomerNumericFields == <<"total_spent", "total_orders", "loyalty_points", "age">>

OrdersNumericFields ==
    <<"quantity", "unit_price", "total_amount", "shipping_cost", "tax", "discount">>

ProductsNumericFields ==
    <<"price", "cost", "weight", "stock_quantity", "reorder_level", "rating">>

ReconciliationNumericFields ==
    <<"amount_paid", "quantity_ordered", "unit_cost", "total_value",
      "discount_applied", "shipping_fee", "tax_amount">>

\* The is_active dict: its keys True/1 and False/0 are one key each.
IsActiveMap(c) ==
    CASE c.t = "bool" -> Bool(c.n = 1)
      [] c.t = "num" /\ c.n \in {0, 100} -> Bool(c.n = 100)
      [] c.t = "str" /\ c.s \in {<<"y", "e", "s">>, <<"t", "r", "u", "e">>, <<"1">>} -> Bool(TRUE)
      [] c.t = "str" /\ c.s \in {<<"n", "o">>, <<"f", "a", "l", "s", "e">>, <<"0">>} -> Bool(FALSE)
      [] OTHER -> Null

\* FillNa of a chain that ends before .fillna(value).
FillNaSkipped(c, value) == c

\* One cell under .fillna(value).
FillNa(c, value) == IF IsNa(c) THEN value ELSE c

StandardizeCustomerDataTypes(d) == CoerceNumericFields(d, CustomerNumericFields, 1)

StandardizeOrdersDataTypes(d) == CoerceNumericFields(d, OrdersNumericFields, 1)

\* StandardizeProductsDataTypes without the .fillna(False) of line 230.
StandardizeProductsDataTypesUnfilled(d) ==
    LET n == CoerceNumericFields(d, ProductsNumericFields, 1)
    IN  IF "is_active" \in Cols(n)
          THEN SetColumn(n, "is_active",
                 [i \in 1..Len(n.rows) |-> IsActiveMap(n.rows[i]["is_active"])],
                 "object")
          ELSE n

StandardizeProductsDataTypes(d) ==
    LET n == CoerceNumericFields(d, ProductsNumericFields, 1)
    IN  IF "is_active" \in Cols(n)
          THEN SetColumn(n, "is_active",
                 [i \in 1..Len(n.rows) |->
                     FillNa(IsActiveMap(n.rows[i]["is_active"]), Bool(FALSE))],
                 "bool")
          ELSE n

StandardizeReconciliationDataTypes(d) ==
    CoerceNumericFields(d, ReconciliationNumericFields, 1)

(* ------------------------ Categorical Normalizer ----------------------- *)

UpperLetters == <<"A", "B", "C", "D", "E", "F", "G", "H", "I", "J", "K", "L", "M",
                  "N", "O", "P", "Q", "R", "S", "T", "U", "V", "W", "X", "Y", "Z">>

LowerLetters == <<"a", "b", "c", "d", "e", "f", "g", "h", "i", "j", "k", "l", "m",
                  "n", "o", "p", "q", "r", "s", "t", "u", "v", "w", "x", "y", "z">>

LowerChar(ch) ==
    IF \E k \in 1..26 : UpperLetters[k] = ch
      THEN LowerLetters[CHOOSE k \in 1..26 : UpperLetters[k] = ch]
      ELSE ch

\* str.lower()
Lower(chars) == [k \in 1..Len(chars) |-> LowerChar(chars[k])]

\* StrLower followed by .str.strip().
StrLowerStripped(c) == IF c.t = "str" THEN Str(Strip(Lower(c.s))) ELSE Null

\* One cell under Series.str.lower(): a cell that is no string gives NaN.
StrLower(c) == IF c.t = "str" THEN Str(Lower(c.s)) ELSE Null

\* One cell under Series.str.strip().
StrStrip(c) == IF c.t = "str" THEN Str(Strip(c.s)) ELSE Null

\* One cell under Series.map(dict): the value of an exactly equal key, else NaN.
MapDict(dict, c) ==
    IF c.t = "str" /\ \E e \in dict : e.k = c.s
      THEN Str((CHOOSE e \in dict : e.k = c.s).v)
      ELSE Null

\* Whether Series.str exists for column c: pandas raises AttributeError
\* ("Can only use .str accessor with string values") unless the column is of
\* object dtype and its present values are not all numbers or all booleans.
StrAccessorOk(d, c) ==
    LET present == {d.rows[i][c] : i \in {j \in 1..Len(d.rows) : NotNa(d.rows[j][c])}}
    IN  /\ d.dtype[c] = "object"
        /\ present # {} => /\ \E x \in present : x.t # "num"
                           /\ \E x \in present : x.t # "bool"

\* NormalizeField without its .fillna(default).
NormalizeFieldWithoutDefault(d, c, dict, default) ==
    IF c \in Cols(d)
      THEN SetColumn(d, c,
             [i \in 1..Len(d.rows) |-> MapDict(dict, StrLower(d.rows[i][c]))],
             "object")
      ELSE d

\* df[c] = df[c].str.lower().map(dict).fillna(default), if c is a column.
NormalizeField(d, c, dict, default) ==
    IF c \in Cols(d)
      THEN SetColumn(d, c,
             [i \in 1..Len(d.rows) |->
                 FillNa(MapDict(dict, StrLower(d.rows[i][c])), Str(default))],
             "object")
      ELSE d

\* The dict of customers status.
CustomerStatusMap ==
    { [k |-> <<"a", "c", "t", "i", "v", "e">>, v |-> <<"a", "c", "t", "i", "v", "e">>],
      [k |-> <<"i", "n", "a", "c", "t", "i", "v", "e">>, v |-> <<"i", "n", "a", "c", "t", "i", "v", "e">>],
      [k |-> <<"s", "u", "s", "p", "e", "n", "d", "e", "d">>, v |-> <<"s", "u", "s", "p", "e", "n", "d", "e", "d">>],
      [k |-> <<"a", "c", "t">>, v |-> <<"a", "c", "t", "i", "v", "e">>],
      [k |-> <<"i", "n", "a", "c", "t">>, v |-> <<"i", "n", "a", "c", "t", "i", "v", "e">>],
      [k |-> <<"s", "u", "s">>, v |-> <<"s", "u", "s", "p", "e", "n", "d", "e", "d">>] }

\* The dict of customers gender.
CustomerGenderMap ==
    { [k |-> <<"m", "a", "l", "e">>, v |-> <<"m", "a", "l", "e">>],
      [k |-> <<"f", "e", "m", "a", "l", "e">>, v |-> <<"f", "e", "m", "a", "l", "e">>],
      [k |-> <<"o", "t", "h", "e", "r">>, v |-> <<"o", "t", "h", "e", "r">>],
      [k |-> <<"m">>, v |-> <<"m", "a", "l", "e">>],
      [k |-> <<"f">>, v |-> <<"f", "e", "m", "a", "l", "e">>],
      [k |-> <<"o">>, v |-> <<"o", "t", "h", "e", "r">>] }

\* The dict of customers segment.
CustomerSegmentMap ==
    { [k |-> <<"r", "e", "g", "u", "l", "a", "r">>, v |-> <<"r", "e", "g", "u", "l", "a", "r">>],
      [k |-> <<"v", "i", "p">>, v |-> <<"v", "i", "p">>],
      [k |-> <<"n", "e", "w">>, v |-> <<"n", "e", "w">>],
      [k |-> <<"r", "e", "g">>, v |-> <<"r", "e", "g", "u", "l", "a", "r">>],
      [k |-> <<"p", "r", "e", "m", "i", "u", "m">>, v |-> <<"v", "i", "p">>] }

\* The dict of orders status.
OrdersStatusMap ==
    { [k |-> <<"p", "e", "n", "d", "i", "n", "g">>, v |-> <<"p", "e", "n", "d", "i", "n", "g">>],
      [k |-> <<"p", "r", "o", "c", "e", "s", "s", "i", "n", "g">>, v |-> <<"p", "r", "o", "c", "e", "s", "s", "i", "n", "g">>],
      [k |-> <<"s", "h", "i", "p", "p", "e", "d">>, v |-> <<"s", "h", "i", "p", "p", "e", "d">>],
      [k |-> <<"d", "e", "l", "i", "v", "e", "r", "e", "d">>, v |-> <<"d", "e", "l", "i", "v", "e", "r", "e", "d">>],
      [k |-> <<"c", "a", "n", "c", "e", "l", "l", "e", "d">>, v |-> <<"c", "a", "n", "c", "e", "l", "l", "e", "d">>],
      [k |-> <<"r", "e", "t", "u", "r", "n", "e", "d">>, v |-> <<"r", "e", "t", "u", "r", "n", "e", "d">>],
      [k |-> <<"p", "e", "n", "d">>, v |-> <<"p", "e", "n", "d", "i", "n", "g">>],
      [k |-> <<"p", "r", "o", "c">>, v |-> <<"p", "r", "o", "c", "e", "s", "s", "i", "n", "g">>],
      [k |-> <<"s", "h", "i", "p">>, v |-> <<"s", "h", "i", "p", "p", "e", "d">>],
      [k |-> <<"d", "e", "l", "i", "v">>, v |-> <<"d", "e", "l", "i", "v", "e", "r", "e", "d">>],
      [k |-> <<"c", "a", "n", "c", "e", "l">>, v |-> <<"c", "a", "n", "c", "e", "l", "l", "e", "d">>],
      [k |-> <<"r", "e", "t">>, v |-> <<"r", "e", "t", "u", "r", "n", "e", "d">>] }

\* The dict of orders payment_method.
OrdersPaymentMethodMap ==
    { [k |-> <<"c", "r", "e", "d", "i", "t", "_", "c", "a", "r", "d">>, v |-> <<"c", "r", "e", "d", "i", "t", "_", "c", "a", "r", "d">>],
      [k |-> <<"d", "e", "b", "i", "t", "_", "c", "a", "r", "d">>, v |-> <<"d", "e", "b", "i", "t", "_", "c", "a", "r", "d">>],
      [k |-> <<"p", "a", "y", "p", "a", "l">>, v |-> <<"p", "a", "y", "p", "a", "l">>],
      [k |-> <<"b", "a", "n", "k", "_", "t", "r", "a", "n", "s", "f", "e", "r">>, v |-> <<"b", "a", "n", "k", "_", "t", "r", "a", "n", "s", "f", "e", "r">>],
      [k |-> <<"c", "a", "s", "h">>, v |-> <<"c", "a", "s", "h">>],
      [k |-> <<"c", "r", "e", "d", "i", "t">>, v |-> <<"c", "r", "e", "d", "i", "t", "_", "c", "a", "r", "d">>],
      [k |-> <<"d", "e", "b", "i", "t">>, v |-> <<"d", "e", "b", "i", "t", "_", "c", "a", "r", "d">>],
      [k |-> <<"t", "r", "a", "n", "s", "f", "e", "r">>, v |-> <<"b", "a", "n", "k", "_", "t", "r", "a", "n", "s", "f", "e", "r">>] }

\* The dict of products category.
ProductsCategoryMap ==
    { [k |-> <<"e", "l", "e", "c", "t", "r", "o", "n", "i", "c", "s">>, v |-> <<"e", "l", "e", "c", "t", "r", "o", "n", "i", "c", "s">>],
      [k |-> <<"c", "l", "o", "t", "h", "i", "n", "g">>, v |-> <<"c", "l", "o", "t", "h", "i", "n", "g">>],
      [k |-> <<"b", "o", "o", "k", "s">>, v |-> <<"b", "o", "o", "k", "s">>],
      [k |-> <<"s", "p", "o", "r", "t", "s">>, v |-> <<"s", "p", "o", "r", "t", "s">>],
      [k |-> <<"t", "o", "y", "s">>, v |-> <<"t", "o", "y", "s">>],
      [k |-> <<"h", "o", "m", "e">>, v |-> <<"h", "o", "m", "e">>],
      [k |-> <<"e", "l", "e", "c">>, v |-> <<"e", "l", "e", "c", "t", "r", "o", "n", "i", "c", "s">>],
      [k |-> <<"c", "l", "o", "t", "h">>, v |-> <<"c", "l", "o", "t", "h", "i", "n", "g">>],
      [k |-> <<"b", "o", "o", "k">>, v |-> <<"b", "o", "o", "k", "s">>],
      [k |-> <<"s", "p", "o", "r", "t">>, v |-> <<"s", "p", "o", "r", "t", "s">>],
      [k |-> <<"t", "o", "y">>, v |-> <<"t", "o", "y", "s">>] }

\* The dict of reconciliation payment_status.
ReconciliationPaymentStatusMap ==
    { [k |-> <<"c", "o", "m", "p", "l", "e", "t", "e", "d">>, v |-> <<"c", "o", "m", "p", "l", "e", "t", "e", "d">>],
      [k |-> <<"p", "e", "n", "d", "i", "n", "g">>, v |-> <<"p", "e", "n", "d", "i", "n", "g">>],
      [k |-> <<"f", "a", "i", "l", "e", "d">>, v |-> <<"f", "a", "i", "l", "e", "d">>],
      [k |-> <<"c", "o", "m", "p", "l", "e", "t", "e">>, v |-> <<"c", "o", "m", "p", "l", "e", "t", "e", "d">>],
      [k |-> <<"p", "e", "n", "d">>, v |-> <<"p", "e", "n", "d", "i", "n", "g">>],
      [k |-> <<"f", "a", "i", "l">>, v |-> <<"f", "a", "i", "l", "e", "d">>] }

\* The dict of reconciliation delivery_status.
ReconciliationDeliveryStatusMap ==
    { [k |-> <<"p", "e", "n", "d", "i", "n", "g">>, v |-> <<"p", "e", "n", "d", "i", "n", "g">>],
      [k |-> <<"i", "n", "_", "t", "r", "a", "n", "s", "i", "t">>, v |-> <<"i", "n", "_", "t", "r", "a", "n", "s", "i", "t">>],
      [k |-> <<"d", "e", "l", "i", "v", "e", "r", "e", "d">>, v |-> <<"d", "e", "l", "i", "v", "e", "r", "e", "d">>],
      [k |-> <<"p", "e", "n", "d">>, v |-> <<"p", "e", "n", "d", "i", "n", "g">>],
      [k |-> <<"t", "r", "a", "n", "s", "i", "t">>, v |-> <<"i", "n", "_", "t", "r", "a", "n", "s", "i", "t">>],
      [k |-> <<"d", "e", "l", "i", "v">>, v |-> <<"d", "e", "l", "i", "v", "e", "r", "e", "d">>] }

NormalizeCustomerCategoricals(d) ==
    NormalizeField(
      NormalizeField(
        NormalizeField(d, "status", CustomerStatusMap, <<"i", "n", "a", "c", "t", "i", "v", "e">>),
        "gender", CustomerGenderMap, <<"o", "t", "h", "e", "r">>),
      "segment", CustomerSegmentMap, <<"r", "e", "g", "u", "l", "a", "r">>)

NormalizeOrdersCategoricals(d) ==
    NormalizeField(
      NormalizeField(d, "status", OrdersStatusMap, <<"p", "e", "n", "d", "i", "n", "g">>),
      "payment_method", OrdersPaymentMethodMap, <<"c", "r", "e", "d", "i", "t", "_", "c", "a", "r", "d">>)

NormalizeProductsCategoricals(d) ==
    LET n == NormalizeField(d, "category", ProductsCategoryMap, <<"o", "t", "h", "e", "r">>)
    IN  IF "brand" \in Cols(n)
          THEN SetColumn(n, "brand",
                 [i \in 1..Len(n.rows) |-> StrStrip(StrLower(n.rows[i]["brand"]))],
                 "object")
          ELSE n

NormalizeReconciliationCategoricals(d) ==
    NormalizeField(
      NormalizeField(d, "payment_status", ReconciliationPaymentStatusMap, <<"p", "e", "n", "d", "i", "n", "g">>),
      "delivery_status", ReconciliationDeliveryStatusMap, <<"p", "e", "n", "d", "i", "n", "g">>)

\* The columns on which each _normalize_*_categoricals uses Series.str.
CustomerStrFields == {"status", "gender", "segment"}

OrdersStrFields == {"status", "payment_method"}

ProductsStrFields == {"category", "brand"}

ReconciliationStrFields == {"payment_status", "delivery_status"}

\* Whether a normalizer raises: one of its columns is present and has no .str.
NormalizeRaises(d, fields) == \E c \in fields \cap Cols(d) : ~StrAccessorOk(d, c)

(* ------------------------ Missing-Value Resolver ----------------------- *)

\* null_variants = ['null', 'NULL', 'N/A', 'NA', '', 'nan', 'NaN']
NullVariants == { <<"n", "u", "l", "l">>, <<"N", "U", "L", "L">>, <<"N", "/", "A">>, <<"N", "A">>, <<>>, <<"n", "a", "n">>, <<"N", "a", "N">> }

\* ReplaceNullVariant matching without regard to letter case.
ReplaceNullVariantAnyCase(c) ==
    IF c.t = "str" /\ Lower(c.s) \in {Lower(v) : v \in NullVariants} THEN Null ELSE c

\* One cell under Series.replace(null_variants, None).
ReplaceNullVariant(c) == IF c.t = "str" /\ c.s \in NullVariants THEN Null ELSE c

\* for col in df.columns: if df[col].dtype == 'object':
\*     df[col] = df[col].replace(null_variants, None)
ReplaceNullVariants(d) ==
    [dtype |-> d.dtype,
     rows  |-> [i \in 1..Len(d.rows) |->
                  [c \in Cols(d) |->
                     IF d.dtype[c] = "object"
                       THEN ReplaceNullVariant(d.rows[i][c])
                       ELSE d.rows[i][c]]]]

\* df[c] = df[c].fillna(value), if c is a column.
FillColumn(d, c, value) ==
    IF c \in Cols(d)
      THEN SetColumn(d, c, [i \in 1..Len(d.rows) |-> FillNa(d.rows[i][c], value)],
                     DtypeAfterAssign(d.dtype[c],
                        IF \E i \in 1..Len(d.rows) : IsNa(d.rows[i][c])
                          THEN {value} ELSE {}))
      ELSE d

\* The numbers of a column, ascending: the present values of Series.median().
RECURSIVE SortedInsert(_, _)
SortedInsert(sorted, x) ==
    IF sorted = <<>> THEN <<x>>
    ELSE IF x <= Head(sorted) THEN <<x>> \o sorted
    ELSE <<Head(sorted)>> \o SortedInsert(Tail(sorted), x)

RECURSIVE SortedPresent(_, _)
SortedPresent(cells, k) ==
    IF k > Len(cells) THEN <<>>
    ELSE IF cells[k].t = "num"
      THEN SortedInsert(SortedPresent(cells, k + 1), cells[k].n)
    ELSE SortedPresent(cells, k + 1)

\* Series.median(): NaN for no present value, the middle value, or the mean
\* of the two middle values.
Median(cells) ==
    LET v == SortedPresent(cells, 1)
        n == Len(v)
    IN  IF n = 0 THEN Null
        ELSE IF n % 2 = 1 THEN Num(v[(n + 1) \div 2])
        ELSE Num((v[n \div 2] + v[n \div 2 + 1]) \div 2)

MinMedianAge == 18

MaxMedianAge == 80

\* MedianAgeReasonable without the range test.
MedianAgeAny(m) == NotNa(m)

\* if pd.notna(median_age) and 18 <= median_age <= 80
MedianAgeReasonable(m) ==
    NotNa(m) /\ MinMedianAge * 100 <= m.n /\ m.n <= MaxMedianAge * 100

HandleCustomerMissingValues(d) ==
    LET r == ReplaceNullVariants(d)
    IN  IF "age" \in Cols(r) /\ MedianAgeReasonable(Median(Column(r, "age")))
          THEN FillColumn(r, "age", Median(Column(r, "age")))
          ELSE r

\* HandleOrdersMissingValues with df = df.fillna(1) for its quantity rule.
HandleOrdersMissingValuesFillingAll(d) ==
    LET r == ReplaceNullVariants(d)
    IN  [dtype |-> r.dtype,
         rows  |-> [i \in 1..Len(r.rows) |->
                      [c \in Cols(r) |-> FillNa(r.rows[i][c], Whole(1))]]]

HandleOrdersMissingValues(d) == FillColumn(ReplaceNullVariants(d), "quantity", Whole(1))

HandleProductsMissingValues(d) ==
    FillColumn(FillColumn(ReplaceNullVariants(d), "stock_quantity", Whole(0)),
               "is_active", Bool(TRUE))

HandleReconciliationMissingValues(d) == ReplaceNullVariants(d)

(* -------------------------- Duplicate Collapser ------------------------ *)

\* Whether rows i and j of d agree on every column of subset.
SameKey(d, subset, i, j) == \A c \in subset : PyKeyEq(d.rows[i][c], d.rows[j][c])

\* The rows of d whose positions are in keep, in their order.
RECURSIVE SelectRows(_, _, _)
SelectRows(rows, keep, k) ==
    IF k > Len(rows) THEN <<>>
    ELSE IF k \in keep THEN <<rows[k]>> \o SelectRows(rows, keep, k + 1)
    ELSE SelectRows(rows, keep, k + 1)

\* DropDuplicates with keep='last'.
DropDuplicatesKeepLast(d, subset) ==
    LET keep == {i \in 1..Len(d.rows) :
                    ~\E j \in (i + 1)..Len(d.rows) : SameKey(d, subset, j, i)}
    IN  [dtype |-> d.dtype, rows |-> SelectRows(d.rows, keep, 1)]

\* df.drop_duplicates(subset=subset, keep='first'): a row goes when an
\* earlier row has the same key; missing values are equal to one another.
DropDuplicates(d, subset) ==
    LET keep == {i \in 1..Len(d.rows) :
                    ~\E j \in 1..(i - 1) : SameKey(d, subset, j, i)}
    IN  [dtype |-> d.dtype, rows |-> SelectRows(d.rows, keep, 1)]

\* DropDuplicatesOn whose result is not assigned back to df.
DropDuplicatesOnUnassigned(d, c) == d

\* df.drop_duplicates(subset=[c], keep='first') if c in df.columns.
DropDuplicatesOn(d, c) == IF c \in Cols(d) THEN DropDuplicates(d, {c}) ELSE d

\* RemoveCustomerDuplicates with each key step judging the rows of the frame
\* it was given rather than those the step before left.
RemoveCustomerDuplicatesIndependently(d) ==
    LET subsets == {Cols(d)} \cup {{c} : c \in {"email", "customer_id"} \cap Cols(d)}
        keep == {i \in 1..Len(d.rows) :
                    \A s \in subsets : ~\E j \in 1..(i - 1) : SameKey(d, s, j, i)}
    IN  [dtype |-> d.dtype, rows |-> SelectRows(d.rows, keep, 1)]

\* _remove_customer_duplicates (lines 395-412): three drop_duplicates calls,
\* each on the result of the one before.
RemoveCustomerDuplicates(d) ==
    DropDuplicatesOn(DropDuplicatesOn(DropDuplicates(d, Cols(d)), "email"), "customer_id")

RemoveOrdersDuplicates(d) == DropDuplicatesOn(DropDuplicates(d, Cols(d)), "order_id")

RemoveProductsDuplicates(d) == DropDuplicatesOn(DropDuplicates(d, Cols(d)), "product_id")

RemoveReconciliationDuplicates(d) == DropDuplicates(d, Cols(d))

(* --------------------------- Entity pipelines -------------------------- *)
(* One action per numbered step of clean_customers_data, clean_orders_data, *)
(* clean_products_data and clean_reconciliation_data.  pc is the position   *)
(* in the function, df its cleaned_df, raw its argument and stages the      *)
(* steps run so far.  An AttributeError of Series.str ends the call at      *)
(* pc = "raised".                                                           *)

\* CustomersMerge in a clean_customers_data that works on the DataFrame it
\* was given instead of df.copy(): what the stage does shows in the
\* caller's dataset.
CustomersMergeOnInput ==
    /\ entity = "customers"
    /\ pc = "start"
    /\ df' = MergeRedundantFields(df, CustomersFieldMappings)
    /\ raw' = df'
    /\ pc' = "merged"
    /\ stages' = Append(stages, "unify")
    /\ UNCHANGED <<entity, pass, out1, run>>

\* clean_customers_data, step 1: _merge_redundant_fields.
CustomersMerge ==
    /\ entity = "customers"
    /\ pc = "start"
    /\ df' = MergeRedundantFields(df, CustomersFieldMappings)
    /\ pc' = "merged"
    /\ stages' = Append(stages, "unify")
    /\ UNCHANGED <<entity, raw, pass, out1, run>>

\* CustomersStandardize in a clean_customers_data that lacks step 3.
CustomersStandardizeThenSkip ==
    /\ entity = "customers"
    /\ pc = "merged"
    /\ df' = StandardizeCustomerDataTypes(df)
    /\ pc' = "normalized"
    /\ stages' = Append(stages, "coerce")
    /\ UNCHANGED <<entity, raw, pass, out1, run>>

\* clean_customers_data, step 2.
CustomersStandardize ==
    /\ entity = "customers"
    /\ pc = "merged"
    /\ df' = StandardizeCustomerDataTypes(df)
    /\ pc' = "typed"
    /\ stages' = Append(stages, "coerce")
    /\ UNCHANGED <<entity, raw, pass, out1, run>>

\* clean_customers_data, step 3.
CustomersNormalize ==
    /\ entity = "customers"
    /\ pc = "typed"
    /\ IF NormalizeRaises(df, CustomerStrFields)
         THEN pc' = "raised" /\ df' = df /\ stages' = stages
         ELSE /\ df' = NormalizeCustomerCategoricals(df)
              /\ pc' = "normalized"
              /\ stages' = Append(stages, "normalize")
    /\ UNCHANGED <<entity, raw, pass, out1, run>>

\* clean_customers_data, step 4.
CustomersHandleMissing ==
    /\ entity = "customers"
    /\ pc = "normalized"
    /\ df' = HandleCustomerMissingValues(df)
    /\ pc' = "resolved"
    /\ stages' = Append(stages, "resolve")
    /\ UNCHANGED <<entity, raw, pass, out1, run>>

\* clean_customers_data, step 5.
CustomersRemoveDuplicates ==
    /\ entity = "customers"
    /\ pc = "resolved"
    /\ df' = RemoveCustomerDuplicates(df)
    /\ pc' = "done"
    /\ stages' = Append(stages, "collapse")
    /\ UNCHANGED <<entity, raw, pass, out1, run>>

\* clean_orders_data, step 1: _merge_redundant_fields.
OrdersMerge ==
    /\ entity = "orders"
    /\ pc = "start"
    /\ df' = MergeRedundantFields(df, OrdersFieldMappings)
    /\ pc' = "merged"
    /\ stages' = Append(stages, "unify")
    /\ UNCHANGED <<entity, raw, pass, out1, run>>

\* clean_orders_data, step 2.
OrdersStandardize ==
    /\ entity = "orders"
    /\ pc = "merged"
    /\ df' = StandardizeOrdersDataTypes(df)
    /\ pc' = "typed"
    /\ stages' = Append(stages, "coerce")
    /\ UNCHANGED <<entity, raw, pass, out1, run>>

\* clean_orders_data, step 3.
OrdersNormalize ==
    /\ entity = "orders"
    /\ pc = "typed"
    /\ IF NormalizeRaises(df, OrdersStrFields)
         THEN pc' = "raised" /\ df' = df /\ stages' = stages
         ELSE /\ df' = NormalizeOrdersCategoricals(df)
              /\ pc' = "normalized"
              /\ stages' = Append(stages, "normalize")
    /\ UNCHANGED <<entity, raw, pass, out1, run>>

\* clean_orders_data, step 4.
OrdersHandleMissing ==
    /\ entity = "orders"
    /\ pc = "normalized"
    /\ df' = HandleOrdersMissingValues(df)
    /\ pc' = "resolved"
    /\ stages' = Append(stages, "resolve")
    /\ UNCHANGED <<entity, raw, pass, out1, run>>

\* clean_orders_data, step 5.
OrdersRemoveDuplicates ==
    /\ entity = "orders"
    /\ pc = "resolved"
    /\ df' = RemoveOrdersDuplicates(df)
    /\ pc' = "done"
    /\ stages' = Append(stages, "collapse")
    /\ UNCHANGED <<entity, raw, pass, out1, run>>

\* clean_products_data, step 1: _merge_redundant_fields.
ProductsMerge ==
    /\ entity = "products"
    /\ pc = "start"
    /\ df' = MergeRedundantFields(df, ProductsFieldMappings)
    /\ pc' = "merged"
    /\ stages' = Append(stages, "unify")
    /\ UNCHANGED <<entity, raw, pass, out1, run>>

\* clean_products_data, step 2.
ProductsStandardize ==
    /\ entity = "products"
    /\ pc = "merged"
    /\ df' = StandardizeProductsDataTypes(df)
    /\ pc' = "typed"
    /\ stages' = Append(stages, "coerce")
    /\ UNCHANGED <<entity, raw, pass, out1, run>>

\* clean_products_data, step 3.
ProductsNormalize ==
    /\ entity = "products"
    /\ pc = "typed"
    /\ IF NormalizeRaises(df, ProductsStrFields)
         THEN pc' = "raised" /\ df' = df /\ stages' = stages
         ELSE /\ df' = NormalizeProductsCategoricals(df)
              /\ pc' = "normalized"
              /\ stages' = Append(stages, "normalize")
    /\ UNCHANGED <<entity, raw, pass, out1, run>>

\* clean_products_data, step 4.
ProductsHandleMissing ==
    /\ entity = "products"
    /\ pc = "normalized"
    /\ df' = HandleProductsMissingValues(df)
    /\ pc' = "resolved"
    /\ stages' = Append(stages, "resolve")
    /\ UNCHANGED <<entity, raw, pass, out1, run>>

\* clean_products_data, step 5.
ProductsRemoveDuplicates ==
    /\ entity = "products"
    /\ pc = "resolved"
    /\ df' = RemoveProductsDuplicates(df)
    /\ pc' = "done"
    /\ stages' = Append(stages, "collapse")
    /\ UNCHANGED <<entity, raw, pass, out1, run>>

\* clean_reconciliation_data, step 1: it has no merge step.
ReconciliationStandardize ==
    /\ entity = "reconciliation"
    /\ pc = "start"
    /\ df' = StandardizeReconciliationDataTypes(df)
    /\ pc' = "typed"
    /\ stages' = Append(stages, "coerce")
    /\ UNCHANGED <<entity, raw, pass, out1, run>>

\* clean_reconciliation_data, step 2.
ReconciliationNormalize ==
    /\ entity = "reconciliation"
    /\ pc = "typed"
    /\ IF NormalizeRaises(df, ReconciliationStrFields)
         THEN pc' = "raised" /\ df' = df /\ stages' = stages
         ELSE /\ df' = NormalizeReconciliationCategoricals(df)
              /\ pc' = "normalized"
              /\ stages' = Append(stages, "normalize")
    /\ UNCHANGED <<entity, raw, pass, out1, run>>

\* clean_reconciliation_data, step 3.
ReconciliationHandleMissing ==
    /\ entity = "reconciliation"
    /\ pc = "normalized"
    /\ df' = HandleReconciliationMissingValues(df)
    /\ pc' = "resolved"
    /\ stages' = Append(stages, "resolve")
    /\ UNCHANGED <<entity, raw, pass, out1, run>>

\* clean_reconciliation_data, step 4.
ReconciliationRemoveDuplicates ==
    /\ entity = "reconciliation"
    /\ pc = "resolved"
    /\ df' = RemoveReconciliationDuplicates(df)
    /\ pc' = "done"
    /\ stages' = Append(stages, "collapse")
    /\ UNCHANGED <<entity, raw, pass, out1, run>>

\* The cleaned output is given to the same clean_* function again: raw is
\* the first output, kept in out1 for comparison with the second.
CleanAgain ==
    /\ pc = "done"
    /\ pass = 1
    /\ pass' = 2
    /\ out1' = df
    /\ raw' = df
    /\ df' = df
    /\ pc' = "start"
    /\ stages' = <<>>
    /\ UNCHANGED <<entity, run>>

Stage ==
    \/ CustomersMerge \/ CustomersStandardize \/ CustomersNormalize
    \/ CustomersHandleMissing \/ CustomersRemoveDuplicates
    \/ OrdersMerge \/ OrdersStandardize \/ OrdersNormalize
    \/ OrdersHandleMissing \/ OrdersRemoveDuplicates
    \/ ProductsMerge \/ ProductsStandardize \/ ProductsNormalize
    \/ ProductsHandleMissing \/ ProductsRemoveDuplicates
    \/ ReconciliationStandardize \/ ReconciliationNormalize
    \/ ReconciliationHandleMissing \/ ReconciliationRemoveDuplicates

(* ------------------------------- inputs -------------------------------- *)

\* The rows over a schema: a schema maps each column to the cells it may hold.
RowsOf(schema) ==
    {r \in [DOMAIN schema -> UNION {schema[c] : c \in DOMAIN schema}] :
        \A c \in DOMAIN schema : r[c] \in schema[c]}

\* The DataFrame of the given rows as the loaders build it: customers and
\* products by pd.DataFrame(json.load(f)), orders and reconciliation by
\* pd.read_csv (lines 660-702), each column with its inferred dtype.
MakeFrame(cols, rows, fromCsv) ==
    [dtype |-> [c \in cols |->
                  InferDtype([i \in 1..Len(rows) |-> rows[i][c]], fromCsv)],
     rows  |-> rows]

FromCsv(e) == e \in {"orders", "reconciliation"}

\* d is a DataFrame of 1..maxRows rows over one of the schemas.
IsFrameOver(d, schemas, maxRows, fromCsv) ==
    \E sc \in schemas : \E n \in 1..maxRows : \E rows \in [1..n -> RowsOf(sc)] :
        d = MakeFrame(DOMAIN sc, rows, fromCsv)

\* The restriction of a schema to some of its columns.
Restrict(schema, cols) == [c \in cols |-> schema[c]]

\* A frame that was never assigned.
NoFrame == [dtype |-> <<>>, rows |-> <<>>]

\* The orchestrator when a clean_* function is called on its own.
NotRunning == [rpc |-> "none"]

CustomersSchemas ==
    { [email |-> {Null, Str(<<"a">>), Str(<<"b">>)}, customer_id |-> {Null, Whole(1), Whole(2)},
       full_name |-> {Str(<<"x">>), Str(<<"y">>)}],
      [email |-> {Null, Str(<<"N", "/", "A">>), Str(<<"a">>)}, email_address |-> {Null, Str(<<"b">>)},
       customer_id |-> {Whole(1), Whole(2)}],
      [cust_id |-> {Whole(1), Whole(2)}, age |-> {Null, Whole(20), Whole(90), Str(<<"a", "b", "c">>)}],
      [customer_id |-> {Whole(1), Whole(2)},
       status |-> {Null, Str(<<"A", "C", "T", "I", "V", "E">>), Str(<<"z", "z", "z">>), Whole(1)}] }

OrdersSchemas ==
    { [order_id |-> {Null, Str(<<"a">>), Str(<<"b">>)}, notes |-> {Str(<<"x">>), Str(<<"y">>)},
       quantity |-> {Null, Whole(2)}],
      [ord_id |-> {Str(<<"a">>), Str(<<"b">>)}, unit_price |-> {Null, Str(<<"$", "1", ",", "2", "3", "4", ".", "5", "6">>), Str(<<"1", "2", "3", "4", ".", "5", "6">>), Num(123456)},
       price |-> {Null, Num(999)}],
      [order_id |-> {Str(<<"a">>), Str(<<"b">>)}, order_status |-> {Null, Str(<<"S", "h", "i", "p", "p", "e", "d">>), Str(<<"z", "z", "z">>)}] }

ProductsSchemas ==
    { [product_id |-> {Null, Str(<<"a">>), Str(<<"b">>)}, price |-> {Null, Str(<<"$", "1", ",", "2", "3", "4", ".", "5", "6">>), Num(123456)},
       stock_quantity |-> {Null, Whole(5)}],
      [item_id |-> {Str(<<"a">>), Str(<<"b">>)}, is_active |-> {Null, Bool(TRUE), Str(<<"Y", "E", "S">>), Str(<<"y", "e", "s">>)},
       brand |-> {Str(<<"x">>), Str(<<" ">>)}] }

ReconciliationSchemas ==
    { [transaction_ref |-> {Str(<<"a">>), Str(<<"b">>)},
       amount_paid |-> {Null, Str(<<"$", "1", ",", "2", "3", "4", ".", "5", "6">>), Num(123456), Str(<<"a", "b", "c">>)},
       payment_status |-> {Null, Str(<<"C", "o", "m", "p", "l", "e", "t", "e">>), Str(<<"z", "z", "z">>)}] }

Schemas(e) ==
    CASE e = "customers" -> CustomersSchemas
      [] e = "orders" -> OrdersSchemas
      [] e = "products" -> ProductsSchemas
      [] OTHER -> ReconciliationSchemas

Entities == {"customers", "orders", "products", "reconciliation"}

(* ---------------------- the four clean_* functions --------------------- *)

Init ==
    /\ entity \in Entities
    /\ IsFrameOver(raw, Schemas(entity), MaxRows, FromCsv(entity))
    /\ df = raw
    /\ pc = "start"
    /\ stages = <<>>
    /\ pass = 1
    /\ out1 = NoFrame
    /\ run = NotRunning

Next == Stage \/ CleanAgain

Spec == Init /\ [][Next]_vars

(* ------------------ _merge_redundant_fields on its own ----------------- *)

\* The mapping each caller passes; "probe" stands for a caller with two
\* synonyms per canonical field.
FieldMappings(e) ==
    CASE e = "customers" -> CustomersFieldMappings
      [] e = "orders" -> OrdersFieldMappings
      [] e = "products" -> ProductsFieldMappings
      [] OTHER -> ProbeFieldMappings

ProbeMerge ==
    /\ entity = "probe"
    /\ pc = "start"
    /\ df' = MergeRedundantFields(df, ProbeFieldMappings)
    /\ pc' = "merged"
    /\ stages' = Append(stages, "unify")
    /\ UNCHANGED <<entity, raw, pass, out1, run>>

Range(seq) == {seq[k] : k \in 1..Len(seq)}

\* The columns of one synonym group, with an unmapped column beside them.
UnifySchemas(m) ==
    {[c \in cols |-> IF c = "notes" THEN {Str(<<"x">>)} ELSE {Null, Str(<<"a">>), Whole(7)}] :
        cols \in (SUBSET (Range(m.sources) \cup {"notes"})) \ {{}}}

InitUnify ==
    /\ entity \in {"customers", "orders", "products", "probe"}
    /\ \E k \in 1..Len(FieldMappings(entity)) :
          IsFrameOver(raw, UnifySchemas(FieldMappings(entity)[k]), MaxRows,
                      FromCsv(entity))
    /\ df = raw
    /\ pc = "start"
    /\ stages = <<>>
    /\ pass = 1
    /\ out1 = NoFrame
    /\ run = NotRunning

NextUnify == CustomersMerge \/ OrdersMerge \/ ProductsMerge \/ ProbeMerge

SpecUnify == InitUnify /\ [][NextUnify]_vars

\* The synonyms of a group that are columns of d, in declared order.
PresentSynonyms(d, m) ==
    SelectSeq(m.sources, LAMBDA c : c \in Cols(d) /\ c # m.target)

\* The value of the first synonym of the group that is present in row r, or Null.
FirstSynonymValue(r, syns) ==
    IF \E k \in 1..Len(syns) : NotNa(r[syns[k]])
      THEN r[syns[CHOOSE k \in 1..Len(syns) :
                    /\ NotNa(r[syns[k]])
                    /\ \A j \in 1..(k - 1) : IsNa(r[syns[j]])]]
      ELSE Null

Merged == pc = "merged" /\ Len(df.rows) = Len(raw.rows)

\* C6: when the canonical column is present, a canonical cell that was filled
\* keeps its value, and one that was null holds the value of the first
\* synonym, in declared order, that is non-null in its row (null if none): a
\* later synonym never replaces what an earlier one filled.
C6_FilledCanonicalKept ==
    pc = "merged" =>
      /\ Len(df.rows) = Len(raw.rows)
      /\ \A k \in 1..Len(FieldMappings(entity)) :
           LET m == FieldMappings(entity)[k]
           IN  m.target \in Cols(raw) =>
                 /\ m.target \in Cols(df)
                 /\ \A i \in 1..Len(raw.rows) :
                      df.rows[i][m.target] =
                        IF NotNa(raw.rows[i][m.target])
                          THEN raw.rows[i][m.target]
                          ELSE FirstSynonymValue(raw.rows[i], PresentSynonyms(raw, m))

\* A null canonical cell took the first synonym's value although the second
\* synonym held another value, and a filled canonical cell is in the frame.
C6_Witness ==
    /\ entity = "probe"
    /\ Merged
    /\ Cols(raw) = {"canonical", "synonym_a", "synonym_b"}
    /\ \E i, j \in 1..Len(raw.rows) :
         /\ IsNa(raw.rows[i]["canonical"])
         /\ NotNa(raw.rows[i]["synonym_a"])
         /\ NotNa(raw.rows[i]["synonym_b"])
         /\ raw.rows[i]["synonym_a"] # raw.rows[i]["synonym_b"]
         /\ df.rows[i]["canonical"] = raw.rows[i]["synonym_a"]
         /\ NotNa(raw.rows[j]["canonical"])
         /\ NotNa(raw.rows[j]["synonym_a"])
         /\ raw.rows[j]["canonical"] # raw.rows[j]["synonym_a"]

\* C7: for customers, orders and products, a row whose canonical field was
\* null (or whose canonical column was absent) while a synonym column held a
\* value has that value in the canonical field after the merge.
C7_SynonymReachesCanonical ==
    (pc = "merged" /\ entity \in {"customers", "orders", "products"}) =>
      /\ Len(df.rows) = Len(raw.rows)
      /\ \A k \in 1..Len(FieldMappings(entity)) :
           LET m == FieldMappings(entity)[k]
           IN  \A c \in Range(m.sources) \cap Cols(raw) : \A i \in 1..Len(raw.rows) :
                 ( /\ c # m.target
                   /\ NotNa(raw.rows[i][c])
                   /\ m.target \in Cols(raw) => IsNa(raw.rows[i][m.target]) )
                 => /\ m.target \in Cols(df)
                    /\ df.rows[i][m.target] = raw.rows[i][c]

\* An orders row with quantity null and qty filled has quantity = qty.
C7_Witness ==
    /\ entity = "orders"
    /\ Merged
    /\ {"quantity", "qty"} \subseteq Cols(raw)
    /\ \E i \in 1..Len(raw.rows) :
         /\ IsNa(raw.rows[i]["quantity"])
         /\ NotNa(raw.rows[i]["qty"])
         /\ df.rows[i]["quantity"] = raw.rows[i]["qty"]

\* C8: when the canonical column is absent, after the merge it exists and
\* equals, row for row, the first declared synonym column that is present; it
\* stays absent exactly when no declared synonym column is present, and the
\* call does not raise.
C8_AbsentCanonicalCopied ==
    /\ pc \in {"start", "merged"}
    /\ pc = "merged" =>
         \A k \in 1..Len(FieldMappings(entity)) :
           LET m == FieldMappings(entity)[k]
               syns == PresentSynonyms(raw, m)
           IN  m.target \notin Cols(raw) =>
                 /\ (m.target \notin Cols(df)) <=> (syns = <<>>)
                 /\ syns # <<>> =>
                      /\ Len(df.rows) = Len(raw.rows)
                      /\ \A i \in 1..Len(raw.rows) :
                           df.rows[i][m.target] = raw.rows[i][syns[1]]

\* The canonical column was absent, both synonyms were present and differ in
\* a row, and the canonical column is now the first synonym's column.
C8_Witness ==
    /\ entity = "probe"
    /\ Merged
    /\ Cols(raw) = {"synonym_a", "synonym_b", "notes"}
    /\ "canonical" \in Cols(df)
    /\ \E i \in 1..Len(raw.rows) :
         /\ raw.rows[i]["synonym_a"] # raw.rows[i]["synonym_b"]
         /\ IsNa(raw.rows[i]["synonym_a"])
         /\ df.rows[i]["canonical"] = raw.rows[i]["synonym_a"]

\* The canonical names of a mapping.
Targets(mappings) == {mappings[k].target : k \in 1..Len(mappings)}

\* C9: the merge removes and changes no synonym column and no column the
\* mapping does not name: every column of the input that is not a canonical
\* name is still there with every cell unchanged, the rows are the same in
\* number, and any column that was added is a canonical one.
C9_OnlyCanonicalTouched ==
    pc = "merged" =>
      /\ Len(df.rows) = Len(raw.rows)
      /\ Cols(raw) \subseteq Cols(df)
      /\ Cols(df) \ Cols(raw) \subseteq Targets(FieldMappings(entity))
      /\ \A c \in Cols(raw) \ Targets(FieldMappings(entity)) :
           /\ df.dtype[c] = raw.dtype[c]
           /\ \A i \in 1..Len(raw.rows) : df.rows[i][c] = raw.rows[i][c]

\* A canonical cell was filled from its synonym while the synonym column and
\* an unmapped column were in the frame.
C9_Witness ==
    /\ entity = "customers"
    /\ Merged
    /\ Cols(raw) = {"email", "email_address", "notes"}
    /\ \E i \in 1..Len(raw.rows) :
         /\ IsNa(raw.rows[i]["email"])
         /\ NotNa(df.rows[i]["email"])
         /\ df.rows[i]["email_address"] = raw.rows[i]["email_address"]

(* ----------------- _remove_customer_duplicates on its own -------------- *)

\* Largest number of rows of a frame given to the Duplicate Collapser.
MaxDedupRows == 3

DedupSchema ==
    [email |-> {Null, Str(<<"a">>), Str(<<"b">>)}, customer_id |-> {Null, Whole(1), Whole(2)},
     full_name |-> {Str(<<"x">>), Str(<<"y">>)}]

\* The frame reaches step 5 of clean_customers_data.
InitDedup ==
    /\ entity = "customers"
    /\ \E cols \in (SUBSET DOMAIN DedupSchema) \ {{}} :
          IsFrameOver(raw, {Restrict(DedupSchema, cols)}, MaxDedupRows, FALSE)
    /\ df = raw
    /\ pc = "resolved"
    /\ stages = <<"unify", "coerce", "normalize", "resolve">>
    /\ pass = 1
    /\ out1 = NoFrame
    /\ run = NotRunning

NextDedup == CustomersRemoveDuplicates

SpecDedup == InitDedup /\ [][NextDedup]_vars

\* Whether the frame holds a row equal to r.
HasRow(d, r) == \E k \in 1..Len(d.rows) : d.rows[k] = r

\* C1: two rows that both have a null email, are not exact duplicates of
\* each other and have different customer_ids are both in the output of
\* _remove_customer_duplicates.
C1_NullEmailsBothKept ==
    (pc = "done" /\ {"email", "customer_id"} \subseteq Cols(raw)) =>
      \A i, j \in 1..Len(raw.rows) :
        ( /\ i < j
          /\ IsNa(raw.rows[i]["email"])
          /\ IsNa(raw.rows[j]["email"])
          /\ raw.rows[i] # raw.rows[j]
          /\ NotNa(raw.rows[i]["customer_id"])
          /\ NotNa(raw.rows[j]["customer_id"])
          /\ raw.rows[i]["customer_id"] # raw.rows[j]["customer_id"] )
        => HasRow(df, raw.rows[i]) /\ HasRow(df, raw.rows[j])

\* The non-null values of a column.
PresentValues(d, c) ==
    {d.rows[i][c] : i \in {j \in 1..Len(d.rows) : NotNa(d.rows[j][c])}}

\* The positions of the rows holding value v in column c.
RowsWith(d, c, v) == {i \in 1..Len(d.rows) : d.rows[i][c] = v}

\* The first position of a non-empty set of positions.
First(positions) == CHOOSE i \in positions : \A j \in positions : i <= j

\* C2 as stated, on datasets without a missing customer_id: for every
\* non-null email value of the input exactly one output row has it, and that
\* row is the first input row with that email.
C2_ExactlyOnePerEmail ==
    ( /\ pc = "done"
      /\ "email" \in Cols(raw)
      /\ "customer_id" \in Cols(raw) =>
            \A i \in 1..Len(raw.rows) : NotNa(raw.rows[i]["customer_id"]) ) =>
      \A e \in PresentValues(raw, "email") :
        /\ Cardinality(RowsWith(df, "email", e)) = 1
        /\ \A k \in RowsWith(df, "email", e) :
             df.rows[k] = raw.rows[First(RowsWith(raw, "email", e))]

\* The rows left by the exact-duplicate step and the email step: those with
\* no earlier row of the same email (missing emails being one value).
EmailSurvivors(d) ==
    {i \in 1..Len(d.rows) :
        ~\E j \in 1..(i - 1) : PyKeyEq(d.rows[j]["email"], d.rows[i]["email"])}

\* C2, amended: for every non-null email value of the input at most one
\* output row has it, and if one has, it is the first input row with that
\* email; there is none exactly when the customer_id step removed that first
\* row, i.e. when an earlier row left by the email step has the same
\* customer_id (missing customer_ids being one value).
C2_AtMostOnePerEmail ==
    (pc = "done" /\ "email" \in Cols(raw)) =>
      \A e \in PresentValues(raw, "email") :
        LET first == First(RowsWith(raw, "email", e))
            kept  == RowsWith(df, "email", e)
        IN  /\ Cardinality(kept) <= 1
            /\ \A k \in kept : df.rows[k] = raw.rows[first]
            /\ (kept = {}) <=>
                 /\ "customer_id" \in Cols(raw)
                 /\ \E j \in EmailSurvivors(raw) :
                      /\ j < first
                      /\ PyKeyEq(raw.rows[j]["customer_id"],
                                 raw.rows[first]["customer_id"])

\* Two input rows share an email and differ otherwise, and the output holds
\* the first of them and not the second.
C2_Witness ==
    /\ pc = "done"
    /\ Cols(raw) = {"email", "customer_id", "full_name"}
    /\ \E i, j \in 1..Len(raw.rows) :
         /\ i < j
         /\ NotNa(raw.rows[i]["email"])
         /\ raw.rows[i]["email"] = raw.rows[j]["email"]
         /\ raw.rows[i]["customer_id"] # raw.rows[j]["customer_id"]
         /\ raw.rows[i]["full_name"] # raw.rows[j]["full_name"]
         /\ HasRow(df, raw.rows[i])
         /\ ~HasRow(df, raw.rows[j])

(* ------------------- claims about the whole pipelines ------------------ *)

\* Whether no two rows of d hold the same non-null value in column c.
UniqueNonNull(d, c) ==
    c \in Cols(d) =>
      \A i, j \in 1..Len(d.rows) :
        (i # j /\ NotNa(d.rows[i][c])) => d.rows[i][c] # d.rows[j][c]

\* C3: the output of clean_customers_data has no two rows with the same
\* non-null email and none with the same non-null customer_id; the output of
\* clean_orders_data none with the same non-null order_id; the output of
\* clean_products_data none with the same non-null product_id.
C3_KeysUnique ==
    pc = "done" =>
      /\ entity = "customers" =>
           UniqueNonNull(df, "email") /\ UniqueNonNull(df, "customer_id")
      /\ entity = "orders" => UniqueNonNull(df, "order_id")
      /\ entity = "products" => UniqueNonNull(df, "product_id")

\* The customers input repeated a non-null customer_id under two different
\* emails, and the output holds one row.
C3_Witness ==
    /\ pc = "done"
    /\ pass = 1
    /\ entity = "customers"
    /\ Cols(raw) = {"email", "customer_id", "full_name"}
    /\ Len(raw.rows) = 2
    /\ NotNa(raw.rows[1]["customer_id"])
    /\ raw.rows[1]["customer_id"] = raw.rows[2]["customer_id"]
    /\ NotNa(raw.rows[1]["email"])
    /\ NotNa(raw.rows[2]["email"])
    /\ raw.rows[1]["email"] # raw.rows[2]["email"]
    /\ Len(df.rows) = 1

\* C4: cleaning the output of a clean_* function again yields the same
\* dataset: same columns, same rows in the same order, same cell values.
C4_Idempotent ==
    (pc = "done" /\ pass = 2) => (df.rows = out1.rows /\ Cols(df) = Cols(out1))

StagesOf(e) ==
    IF e = "reconciliation"
      THEN <<"coerce", "normalize", "resolve", "collapse">>
      ELSE <<"unify", "coerce", "normalize", "resolve", "collapse">>

NumericFields(e) ==
    CASE e = "customers" -> CustomerNumericFields
      [] e = "orders" -> OrdersNumericFields
      [] e = "products" -> ProductsNumericFields
      [] OTHER -> ReconciliationNumericFields

\* Raw cells of a numeric field.
NumericInputs ==
    {Null, Num(123456), Whole(42), Str(<<"$", "1", ",", "2", "3", "4", ".", "5", "6">>), Str(<<"1", "2", "3", "4", ".", "5", "6">>), Str(<<"1", ",", "2", "3", "4">>), Str(<<"$", "5">>),
     Str(<<"4", "2">>), Str(<<"a", "b", "c">>)}

\* The frame reaches step 2 (step 1 for reconciliation) with one declared
\* numeric field.
InitCoerce ==
    /\ entity \in Entities
    /\ \E k \in 1..Len(NumericFields(entity)) :
          IsFrameOver(raw, {[c \in {NumericFields(entity)[k]} |-> NumericInputs]},
                      MaxRows, FromCsv(entity))
    /\ df = raw
    /\ pc = IF entity = "reconciliation" THEN "start" ELSE "merged"
    /\ stages = IF entity = "reconciliation" THEN <<>> ELSE <<"unify">>
    /\ pass = 1
    /\ out1 = NoFrame
    /\ run = NotRunning

NextCoerce ==
    \/ CustomersStandardize \/ OrdersStandardize
    \/ ProductsStandardize \/ ReconciliationStandardize

SpecCoerce == InitCoerce /\ [][NextCoerce]_vars

\* C10: in every declared numeric field the string "$1,234.56", which has a
\* currency symbol and a thousands separator, coerces to the number 1234.56
\* that it stands for, as the native number 1234.56 does, and not to null.
C10_CurrencyCoerced ==
    pc = "typed" =>
      \A c \in Cols(raw) : \A i \in 1..Len(raw.rows) :
        raw.rows[i][c] \in {Num(123456), Str(<<"$", "1", ",", "2", "3", "4", ".", "5", "6">>)}
          => df.rows[i][c] = Num(123456)

\* C11: numeric coercion is total and best-effort.  For every declared
\* numeric field of every entity, whatever the cells are (a number, a numeric
\* text, a non-numeric text such as "abc", null), the Type Coercer does not
\* raise, and once it has run every cell of the field is a number or null and
\* never a text: a number stays what it was, the numeric text "42" is the
\* number 42, and the non-numeric text "abc" and null are null.
C11_NumericCoercionTotal ==
    /\ pc # "raised"
    /\ pc = "typed" =>
         \A c \in Cols(raw) : \A i \in 1..Len(raw.rows) :
           /\ Len(df.rows) = Len(raw.rows)
           /\ df.rows[i][c].t \in {"num", "null"}
           /\ raw.rows[i][c].t = "num" => df.rows[i][c] = raw.rows[i][c]
           /\ raw.rows[i][c] = Str(<<"4", "2">>) => df.rows[i][c] = Num(4200)
           /\ raw.rows[i][c] \in {Str(<<"a", "b", "c">>), Null} => df.rows[i][c] = Null

\* The coercer has run on a column holding "abc" next to a number.
C11_Witness ==
    /\ pc = "typed"
    /\ Len(raw.rows) = 2
    /\ \E c \in Cols(raw) :
         /\ raw.rows[1][c] = Str(<<"a", "b", "c">>) /\ df.rows[1][c] = Null
         /\ raw.rows[2][c] = Num(123456) /\ df.rows[2][c] = Num(123456)

(* ------------------ the boolean coercion on its own -------------------- *)

\* Raw cells of products is_active: native booleans, 1 and 0, the literals
\* of the dict, the same words in other letter cases, and values the dict
\* does not have.
IsActiveInputs ==
    {Null, Bool(TRUE), Bool(FALSE), Whole(1), Whole(0), Whole(2),
     Str(<<"t", "r", "u", "e">>), Str(<<"f", "a", "l", "s", "e">>), Str(<<"y", "e", "s">>), Str(<<"n", "o">>), Str(<<"1">>), Str(<<"0">>),
     Str(<<"T", "R", "U", "E">>), Str(<<"T", "r", "u", "e">>), Str(<<"Y", "e", "s">>), Str(<<"Y", "E", "S">>),
     Str(<<"F", "A", "L", "S", "E">>), Str(<<"F", "a", "l", "s", "e">>), Str(<<"N", "o">>), Str(<<"N", "O">>), Str(<<"m", "a", "y", "b", "e">>)}

\* The products frame reaches step 2 with an is_active column.
InitBool ==
    /\ entity = "products"
    /\ IsFrameOver(raw, {[c \in {"is_active"} |-> IsActiveInputs]}, MaxRows,
                   FromCsv(entity))
    /\ df = raw
    /\ pc = "merged"
    /\ stages = <<"unify">>
    /\ pass = 1
    /\ out1 = NoFrame
    /\ run = NotRunning

NextBool == ProductsStandardize

SpecBool == InitBool /\ [][NextBool]_vars

\* C12: boolean coercion matches its literals in any letter case.  After the
\* Type Coercer of products, an is_active cell that was 'TRUE', 'True', 'Yes'
\* or 'YES' is true, as one that was 'true' or 'yes' is, and a cell that was
\* 'FALSE', 'False', 'No' or 'NO' is false, as one that was 'false' or 'no' is.
C12_BooleanAnyCase ==
    pc = "typed" =>
      \A i \in 1..Len(raw.rows) :
        /\ raw.rows[i]["is_active"] \in
             {Str(<<"t", "r", "u", "e">>), Str(<<"y", "e", "s">>), Str(<<"T", "R", "U", "E">>), Str(<<"T", "r", "u", "e">>), Str(<<"Y", "e", "s">>), Str(<<"Y", "E", "S">>)}
             => df.rows[i]["is_active"] = Bool(TRUE)
        /\ raw.rows[i]["is_active"] \in
             {Str(<<"f", "a", "l", "s", "e">>), Str(<<"n", "o">>), Str(<<"F", "A", "L", "S", "E">>), Str(<<"F", "a", "l", "s", "e">>), Str(<<"N", "o">>), Str(<<"N", "O">>)}
             => df.rows[i]["is_active"] = Bool(FALSE)

\* C13: boolean coercion never yields null.  After the Type Coercer of
\* products every is_active cell is a boolean: native true and false, 1 and
\* 0 and the literals 'true', 'false', 'yes', 'no', '1', '0' are their
\* boolean, and every other value, null included, is the fallback false.
C13_BooleanNeverNull ==
    pc = "typed" =>
      /\ Len(df.rows) = Len(raw.rows)
      /\ \A i \in 1..Len(raw.rows) :
           LET given == raw.rows[i]["is_active"]
               made == df.rows[i]["is_active"]
               yes == {Bool(TRUE), Whole(1), Str(<<"t", "r", "u", "e">>), Str(<<"y", "e", "s">>), Str(<<"1">>)}
               no  == {Bool(FALSE), Whole(0), Str(<<"f", "a", "l", "s", "e">>), Str(<<"n", "o">>), Str(<<"0">>)}
           IN  /\ made.t = "bool"
               /\ given \in yes => made = Bool(TRUE)
               /\ given \in no => made = Bool(FALSE)
               /\ given \notin yes \cup no => made = Bool(FALSE)

\* The coercer has run on a null, a text outside the dict and the number 1.
C13_Witness ==
    /\ pc = "typed"
    /\ \E i, j \in 1..Len(raw.rows) :
         /\ raw.rows[i]["is_active"] \in {Null, Str(<<"m", "a", "y", "b", "e">>)}
         /\ df.rows[i]["is_active"] = Bool(FALSE)
         /\ raw.rows[j]["is_active"] = Whole(1)
         /\ df.rows[j]["is_active"] = Bool(TRUE)

(* ----------------- from the Categorical Normalizer on ------------------ *)

\* Frames with the categorical fields of each entity: a missing value, a
\* synonym in upper or mixed case, a text no dict has, and for the status
\* fields a number; and frames of status texts that are a synonym, or
\* nearly one.
NormalizeSchemas(e) ==
    CASE e = "customers" ->
           { [status  |-> {Null, Str(<<"A", "C", "T">>), Str(<<"z", "z", "z">>), Whole(1)},
              gender  |-> {Null, Str(<<"M">>), Str(<<"z", "z", "z">>)},
              segment |-> {Null, Str(<<"P", "r", "e", "m", "i", "u", "m">>), Str(<<"N", "/", "A">>)}],
             [status  |-> {Str(<<"A", "C", "T", "I", "V", "E">>), Str(<<"A", "c", "t">>), Str(<<"a", "c", "t", "i", "v">>), Str(<<" ", "a", "c", "t", "i", "v", "e">>)}] }
      [] e = "orders" ->
           { [status         |-> {Null, Str(<<"S", "h", "i", "p">>), Str(<<"z", "z", "z">>), Whole(1)},
              payment_method |-> {Null, Str(<<"C", "R", "E", "D", "I", "T">>), Str(<<"z", "z", "z">>)}],
             [status         |-> {Str(<<"s", "h", "i", "p", "p", "e", "d", "!">>), Str(<<"S", "H", "I", "P", "P", "E", "D">>), Str(<<"P", "e", "n", "d">>)}] }
      [] e = "products" ->
           { [category |-> {Null, Str(<<"E", "l", "e", "c">>), Str(<<"z", "z", "z">>), Str(<<"N", "/", "A">>)}] }
      [] OTHER ->
           { [payment_status  |-> {Null, Str(<<"F", "A", "I", "L">>), Str(<<"z", "z", "z">>)},
              delivery_status |-> {Null, Str(<<"T", "r", "a", "n", "s", "i", "t">>), Str(<<"z", "z", "z">>)}] }

\* The frame reaches step 3 of its clean_* function (step 2 for
\* reconciliation).
InitNormalize ==
    /\ entity \in Entities
    /\ IsFrameOver(raw, NormalizeSchemas(entity), MaxRows, FromCsv(entity))
    /\ df = raw
    /\ pc = "typed"
    /\ stages = IF entity = "reconciliation" THEN <<"coerce">> ELSE <<"unify", "coerce">>
    /\ pass = 1
    /\ out1 = NoFrame
    /\ run = NotRunning

NextNormalize ==
    \/ CustomersNormalize \/ CustomersHandleMissing \/ CustomersRemoveDuplicates
    \/ OrdersNormalize \/ OrdersHandleMissing \/ OrdersRemoveDuplicates
    \/ ProductsNormalize \/ ProductsHandleMissing \/ ProductsRemoveDuplicates
    \/ ReconciliationNormalize \/ ReconciliationHandleMissing
    \/ ReconciliationRemoveDuplicates

SpecNormalize == InitNormalize /\ [][NextNormalize]_vars

\* The canonical vocabulary of each categorical field, its default last.
Vocabulary(e, c) ==
    CASE e = "customers" /\ c = "status" -> <<<<"a", "c", "t", "i", "v", "e">>, <<"s", "u", "s", "p", "e", "n", "d", "e", "d">>, <<"i", "n", "a", "c", "t", "i", "v", "e">>>>
      [] e = "customers" /\ c = "gender" -> <<<<"m", "a", "l", "e">>, <<"f", "e", "m", "a", "l", "e">>, <<"o", "t", "h", "e", "r">>>>
      [] e = "customers" /\ c = "segment" -> <<<<"v", "i", "p">>, <<"n", "e", "w">>, <<"r", "e", "g", "u", "l", "a", "r">>>>
      [] e = "orders" /\ c = "status" ->
           <<<<"p", "r", "o", "c", "e", "s", "s", "i", "n", "g">>, <<"s", "h", "i", "p", "p", "e", "d">>, <<"d", "e", "l", "i", "v", "e", "r", "e", "d">>, <<"c", "a", "n", "c", "e", "l", "l", "e", "d">>, <<"r", "e", "t", "u", "r", "n", "e", "d">>, <<"p", "e", "n", "d", "i", "n", "g">>>>
      [] e = "orders" /\ c = "payment_method" ->
           <<<<"d", "e", "b", "i", "t", "_", "c", "a", "r", "d">>, <<"p", "a", "y", "p", "a", "l">>, <<"b", "a", "n", "k", "_", "t", "r", "a", "n", "s", "f", "e", "r">>, <<"c", "a", "s", "h">>, <<"c", "r", "e", "d", "i", "t", "_", "c", "a", "r", "d">>>>
      [] e = "products" /\ c = "category" ->
           <<<<"e", "l", "e", "c", "t", "r", "o", "n", "i", "c", "s">>, <<"c", "l", "o", "t", "h", "i", "n", "g">>, <<"b", "o", "o", "k", "s">>, <<"s", "p", "o", "r", "t", "s">>, <<"t", "o", "y", "s">>, <<"h", "o", "m", "e">>, <<"o", "t", "h", "e", "r">>>>
      [] e = "reconciliation" /\ c = "payment_status" ->
           <<<<"c", "o", "m", "p", "l", "e", "t", "e", "d">>, <<"f", "a", "i", "l", "e", "d">>, <<"p", "e", "n", "d", "i", "n", "g">>>>
      [] e = "reconciliation" /\ c = "delivery_status" ->
           <<<<"i", "n", "_", "t", "r", "a", "n", "s", "i", "t">>, <<"d", "e", "l", "i", "v", "e", "r", "e", "d">>, <<"p", "e", "n", "d", "i", "n", "g">>>>

CategoricalFields(e) ==
    CASE e = "customers" -> {"status", "gender", "segment"}
      [] e = "orders" -> {"status", "payment_method"}
      [] e = "products" -> {"category"}
      [] OTHER -> {"payment_status", "delivery_status"}

DefaultOf(e, c) == Vocabulary(e, c)[Len(Vocabulary(e, c))]

ExpectedStatus(e) ==
    IF e = "customers"
      THEN { [text |-> <<"A", "C", "T", "I", "V", "E">>,  value |-> <<"a", "c", "t", "i", "v", "e">>],
             [text |-> <<"A", "c", "t">>,     value |-> <<"a", "c", "t", "i", "v", "e">>],
             [text |-> <<"A", "C", "T">>,     value |-> <<"a", "c", "t", "i", "v", "e">>],
             [text |-> <<"a", "c", "t", "i", "v">>,   value |-> <<"i", "n", "a", "c", "t", "i", "v", "e">>],
             [text |-> <<" ", "a", "c", "t", "i", "v", "e">>, value |-> <<"i", "n", "a", "c", "t", "i", "v", "e">>],
             [text |-> <<"z", "z", "z">>,     value |-> <<"i", "n", "a", "c", "t", "i", "v", "e">>] }
      ELSE { [text |-> <<"S", "H", "I", "P", "P", "E", "D">>,  value |-> <<"s", "h", "i", "p", "p", "e", "d">>],
             [text |-> <<"S", "h", "i", "p">>,     value |-> <<"s", "h", "i", "p", "p", "e", "d">>],
             [text |-> <<"P", "e", "n", "d">>,     value |-> <<"p", "e", "n", "d", "i", "n", "g">>],
             [text |-> <<"s", "h", "i", "p", "p", "e", "d", "!">>, value |-> <<"p", "e", "n", "d", "i", "n", "g">>],
             [text |-> <<"z", "z", "z">>,      value |-> <<"p", "e", "n", "d", "i", "n", "g">>] }

\* C15: categorical matching is exact on the lower-cased text.  A status
\* text becomes the canonical value c exactly when its lower-cased form is a
\* declared synonym of c: 'ACTIVE' and 'Act' become 'active', 'SHIPPED'
\* becomes 'shipped'; a text with a missing letter, a blank before it or a
\* character after it ('activ', ' active', 'shipped!') matches nothing and
\* becomes the default ('inactive' for customers, 'pending' for orders).
C15_ExactLowerCaseMatch ==
    pc = "normalized" /\ entity \in {"customers", "orders"} /\ "status" \in Cols(raw) =>
      \A i \in 1..Len(raw.rows) : \A x \in ExpectedStatus(entity) :
        raw.rows[i]["status"] = Str(x.text) => df.rows[i]["status"] = Str(x.value)

\* The normalizer has run on 'Act' and ' active'.
C15_Witness ==
    /\ pc = "normalized"
    /\ entity = "customers"
    /\ Len(raw.rows) = 2
    /\ raw.rows[1]["status"] = Str(<<"A", "c", "t">>)
    /\ df.rows[1]["status"] = Str(<<"a", "c", "t", "i", "v", "e">>)
    /\ raw.rows[2]["status"] = Str(<<" ", "a", "c", "t", "i", "v", "e">>)
    /\ df.rows[2]["status"] = Str(<<"i", "n", "a", "c", "t", "i", "v", "e">>)

(* ---------------------- the age imputation on its own ------------------- *)

\* Raw ages: missing, either side of both limits of the sanity bound, two
\* ordinary ages and an absurd one.
AgeInputs ==
    {Null, Whole(17), Whole(18), Whole(25), Whole(30), Whole(80), Whole(81), Whole(1000)}

\* The customers frame reaches step 4 with an age column, float64 since
\* step 2.
InitAge ==
    /\ entity = "customers"
    /\ \E n \in 1..MaxAgeRows : \E rows \in [1..n -> RowsOf([age |-> AgeInputs])] :
          raw = StandardizeCustomerDataTypes(MakeFrame({"age"}, rows, FromCsv(entity)))
    /\ df = raw
    /\ pc = "normalized"
    /\ stages = <<"unify", "coerce", "normalize">>
    /\ pass = 1
    /\ out1 = NoFrame
    /\ run = NotRunning

NextAge == CustomersHandleMissing

SpecAge == InitAge /\ [][NextAge]_vars

\* The ages of a frame, in hundredths, by row; 0 - 1 for a missing one.
AgesOf(d) == [i \in 1..Len(d.rows) |->
                IF d.rows[i]["age"].t = "num" THEN d.rows[i]["age"].n ELSE 0 - 1]

\* The k-th smallest of the present ages of a.
KthAge(a, k) ==
    CHOOSE x \in {a[i] : i \in {j \in DOMAIN a : a[j] >= 0}} :
      /\ Cardinality({i \in DOMAIN a : a[i] >= 0 /\ a[i] < x}) < k
      /\ Cardinality({i \in DOMAIN a : a[i] >= 0 /\ a[i] <= x}) >= k

\* C16: age imputation is gated by a sanity bound.  The Missing-Value
\* Resolver of customers replaces the null ages by the median of the
\* non-null ages exactly when that median exists and lies in [18, 80];
\* otherwise the null ages stay null.  A non-null age, 1000 included, is
\* never changed.  For the ages [25, null, 30, 1000] the median 30 is in
\* bound and the null becomes 30.
C16_AgeImputationGated ==
    pc = "resolved" =>
      LET a      == AgesOf(raw)
          n      == Cardinality({i \in DOMAIN a : a[i] >= 0})
          twice  == KthAge(a, (n + 1) \div 2) + KthAge(a, n \div 2 + 1)
          inside == n > 0 /\ 2 * 1800 <= twice /\ twice <= 2 * 8000
      IN  /\ Len(df.rows) = Len(raw.rows)
          /\ \A i \in DOMAIN a :
               /\ a[i] >= 0 => df.rows[i]["age"] = raw.rows[i]["age"]
               /\ a[i] < 0 /\ inside => df.rows[i]["age"] = Num(twice \div 2)
               /\ a[i] < 0 /\ ~inside => df.rows[i]["age"] = Null
          /\ a = <<2500, 0 - 1, 3000, 100000>>
               => AgesOf(df) = <<2500, 3000, 3000, 100000>>

\* The resolver has run on the ages [25, null, 30, 1000].
C16_Witness ==
    /\ pc = "resolved"
    /\ AgesOf(raw) = <<2500, 0 - 1, 3000, 100000>>
    /\ AgesOf(df) = <<2500, 3000, 3000, 100000>>

(* ------------------ the Missing-Value Resolver on its own -------------- *)

\* Cells of a free-text column: the seven null_variants, texts that differ
\* from one of them in letter case or are blank, an ordinary text and a
\* missing value.
TextInputs ==
    {Str(<<"n", "u", "l", "l">>), Str(<<"N", "U", "L", "L">>), Str(<<"N", "/", "A">>), Str(<<"N", "A">>), Str(<<>>), Str(<<"n", "a", "n">>), Str(<<"N", "a", "N">>),
     Str(<<"n", "/", "a">>), Str(<<"N", "u", "l", "l">>), Str(<<"N", "o", "n", "e">>), Str(<<" ">>), Str(<<"x">>), Null}

\* Frames as a caller of clean_* may pass them: one free-text column, or the
\* fields with and without an imputation rule.
ResolveSchemas(e) ==
    CASE e = "customers" ->
           { [full_name |-> TextInputs],
             [email |-> {Null, Str(<<"a">>)}, loyalty_points |-> {Null, Whole(5)}] }
      [] e = "orders" ->
           { [notes |-> TextInputs],
             [quantity |-> {Null, Whole(2)}, unit_price |-> {Null, Num(999)},
              total_amount |-> {Null, Num(1998)}] }
      [] e = "products" ->
           { [description |-> TextInputs],
             [stock_quantity |-> {Null, Whole(5)}, price |-> {Null, Num(999)},
              is_active |-> {Bool(TRUE), Bool(FALSE)}] }
      [] OTHER ->
           { [notes_comments |-> TextInputs],
             [amount_paid |-> {Null, Num(999)}, region |-> {Str(<<"N", "A">>), Str(<<"x">>)}] }

\* The frame as _standardize_*_data_types of its entity leaves it.
Standardized(e, d) ==
    CASE e = "customers" -> StandardizeCustomerDataTypes(d)
      [] e = "orders" -> StandardizeOrdersDataTypes(d)
      [] e = "products" -> StandardizeProductsDataTypes(d)
      [] OTHER -> StandardizeReconciliationDataTypes(d)

\* The frame reaches step 4 of its clean_* function (step 3 for
\* reconciliation), its numeric fields float64 since the Type Coercer.
InitResolve ==
    /\ entity \in Entities
    /\ \E sc \in ResolveSchemas(entity) : \E n \in 1..MaxRows :
         \E rows \in [1..n -> RowsOf(sc)] :
           raw = Standardized(entity, MakeFrame(DOMAIN sc, rows, FromCsv(entity)))
    /\ df = raw
    /\ pc = "normalized"
    /\ stages = IF entity = "reconciliation"
                  THEN <<"coerce", "normalize">>
                  ELSE <<"unify", "coerce", "normalize">>
    /\ pass = 1
    /\ out1 = NoFrame
    /\ run = NotRunning

NextResolve ==
    \/ CustomersHandleMissing \/ OrdersHandleMissing
    \/ ProductsHandleMissing \/ ReconciliationHandleMissing

SpecResolve == InitResolve /\ [][NextResolve]_vars

\* C17: literal null-variant replacement.  In the Missing-Value Resolver of
\* every entity, every cell of a string-typed (object) column that is exactly
\* 'null', 'NULL', 'N/A', 'NA', '', 'nan' or 'NaN' becomes null.  The match
\* is exact and case-sensitive: 'n/a', 'Null', 'None', ' ' and every other
\* text stay as they are.
C17_NullVariantsReplaced ==
    pc = "resolved" =>
      \A c \in Cols(raw) : \A i \in 1..Len(raw.rows) :
        LET cell == raw.rows[i][c]
            variant == cell.s \in {<<"n", "u", "l", "l">>, <<"N", "U", "L", "L">>, <<"N", "/", "A">>, <<"N", "A">>, <<>>, <<"n", "a", "n">>, <<"N", "a", "N">>}
        IN  raw.dtype[c] = "object" /\ cell.t = "str" =>
              df.rows[i][c] = IF variant THEN Null ELSE cell

\* The resolver has run on a column holding 'N/A' and 'n/a'.
C17_Witness ==
    /\ pc = "resolved"
    /\ Len(raw.rows) = 2
    /\ \E c \in Cols(raw) :
         /\ raw.rows[1][c] = Str(<<"N", "/", "A">>) /\ df.rows[1][c] = Null
         /\ raw.rows[2][c] = Str(<<"n", "/", "a">>) /\ df.rows[2][c] = Str(<<"n", "/", "a">>)

\* C18: fixed-constant imputation is unconditional, and a field without a
\* rule keeps its nulls.  After the Missing-Value Resolver every orders
\* quantity that was null is 1 and every products stock_quantity that was
\* null is 0; the non-null cells of these fields are unchanged; the null
\* cells of orders unit_price and total_amount, of products price and of
\* customers email are still null.
C18_ConstantImputation ==
    pc = "resolved" =>
      \A c \in Cols(raw) : \A i \in 1..Len(raw.rows) :
        LET before == raw.rows[i][c]
            after  == df.rows[i][c]
        IN  /\ entity = "orders" /\ c = "quantity" =>
                 after = IF before = Null THEN Num(100) ELSE before
            /\ entity = "products" /\ c = "stock_quantity" =>
                 after = IF before = Null THEN Num(0) ELSE before
            /\ \/ entity = "orders" /\ c \in {"unit_price", "total_amount"}
               \/ entity = "products" /\ c = "price"
               \/ entity = "customers" /\ c = "email"
               => (before = Null => after = Null)

\* The resolver has run on an orders row without quantity and unit_price.
C18_Witness ==
    /\ pc = "resolved"
    /\ entity = "orders"
    /\ "quantity" \in Cols(raw)
    /\ \E i \in 1..Len(raw.rows) :
         /\ raw.rows[i]["quantity"] = Null /\ df.rows[i]["quantity"] = Num(100)
         /\ raw.rows[i]["unit_price"] = Null /\ df.rows[i]["unit_price"] = Null

(* --------------------- clean_orders_data end to end --------------------- *)

\* Orders frames with both spellings of quantity and unit price, without a
\* status column, with one, or with its synonym order_status.
ScenarioSchemas ==
    LET base == [qty |-> {Whole(2), Null}, quantity |-> {Null, Whole(5)},
                 price |-> {Num(999), Null}, unit_price |-> {Null, Num(500)}]
    IN  { base,
          [c \in DOMAIN base \cup {"status"} |->
             IF c = "status" THEN {Null, Str(<<"S", "h", "i", "p", "p", "e", "d">>)} ELSE base[c]],
          [c \in DOMAIN base \cup {"order_status"} |->
             IF c = "order_status" THEN {Null, Str(<<"S", "h", "i", "p", "p", "e", "d">>)} ELSE base[c]] }

InitOrders ==
    /\ entity = "orders"
    /\ IsFrameOver(raw, ScenarioSchemas, MaxRows, FromCsv(entity))
    /\ df = raw
    /\ pc = "start"
    /\ stages = <<>>
    /\ pass = 1
    /\ out1 = NoFrame
    /\ run = NotRunning

NextOrders ==
    \/ OrdersMerge \/ OrdersStandardize \/ OrdersNormalize
    \/ OrdersHandleMissing \/ OrdersRemoveDuplicates

SpecOrders == InitOrders /\ [][NextOrders]_vars

\* Row i of the input has qty = 2, quantity = null, price = 9.99 and
\* unit_price = null.
IsScenarioRow(i) ==
    /\ raw.rows[i]["qty"] = Num(200)
    /\ raw.rows[i]["quantity"] = Null
    /\ raw.rows[i]["price"] = Num(999)
    /\ raw.rows[i]["unit_price"] = Null

\* Row i of the input has no status: neither under status nor under
\* order_status is there a cell with a value.
StatusAbsent(i) ==
    /\ "status" \in Cols(raw) => raw.rows[i]["status"] = Null
    /\ "order_status" \in Cols(raw) => raw.rows[i]["order_status"] = Null

\* C19: the end-to-end orders scenario.  For every input row with qty = 2,
\* quantity = null, price = 9.99 and unit_price = null, the row that
\* clean_orders_data produces for it has quantity = 2 and unit_price = 9.99,
\* and it has status 'pending' if the input has no status for it (the cell
\* is null, or there is no status and no order_status column).  Rows are
\* matched by position in the runs that removed no row.
C19_OrdersScenario ==
    pc = "done" /\ Len(df.rows) = Len(raw.rows) =>
      \A i \in 1..Len(raw.rows) :
        IsScenarioRow(i) =>
          /\ df.rows[i]["quantity"] = Num(200)
          /\ df.rows[i]["unit_price"] = Num(999)
          /\ StatusAbsent(i) =>
               /\ "status" \in Cols(df)
               /\ df.rows[i]["status"] = Str(<<"p", "e", "n", "d", "i", "n", "g">>)

(* ------------------------ ETLPipeline.run_pipeline ---------------------- *)
(* The run_pipeline call made by main(), in run number run.runs of the      *)
(* script on the same files.  run.rpc is the position in it;                *)
(* while run.rpc = "clean" the steps of the clean_* function of `entity`    *)
(* run as the actions above.  run.rawData and run.cleaned are the dicts of  *)
(* _load_raw_data and _clean_data, run.conn is DatabaseManager.conn, run.db *)
(* the tables of the SQLite file (run.db0 as the run found them),           *)
(* run.calls the DatabaseManager methods called, run.trace the steps        *)
(* attempted with their outcome, run.errors the messages                    *)
(* logged at level ERROR, run.exc the exception in flight.                  *)

\* The order of _clean_data (lines 711-714).
CleanOrder == <<"customers", "orders", "products", "reconciliation">>

\* LoadOrder with the orders table loaded first.
LoadOrderOrdersFirst ==
    << [table |-> "orders",              from |-> "orders"],
       [table |-> "customers",           from |-> "customers"],
       [table |-> "products",            from |-> "products"],
       [table |-> "reconciliation_data", from |-> "reconciliation"] >>

\* The tables in the order of _load_data_to_database (lines 723-726), each
\* with the cleaned dataset loaded into it.
LoadOrder ==
    << [table |-> "customers",           from |-> "customers"],
       [table |-> "products",            from |-> "products"],
       [table |-> "orders",              from |-> "orders"],
       [table |-> "reconciliation_data", from |-> "reconciliation"] >>

Tables == {LoadOrder[k].table : k \in 1..Len(LoadOrder)}

\* A stored table: absent, left by an earlier run, created empty by
\* create_database, or written by load_data with the given rows.
Absent == [state |-> "absent", data |-> NoFrame]

Previous ==
    [state |-> "previous",
     data  |-> [dtype |-> [id |-> "object"], rows |-> <<[id |-> Str(<<"o", "l", "d">>)]>>]]

Created == [state |-> "created", data |-> NoFrame]

Loaded(d) == [state |-> "loaded", data |-> d]

NoException == [step |-> "none", at |-> "none", cause |-> "none"]

\* str(e) of the exception a step raises: the text of the library that
\* raised it.  The cleaner raises through Series.str (pandas: "Can only use
\* .str accessor with string values!"), the report through json.dump.
Cause(step) ==
    CASE step = "load_raw" -> "cannot read file"
      [] step = "clean" -> "Can only use .str accessor with string values!"
      [] step = "create_database" -> "sqlite3 error"
      [] step = "load_data" -> "to_sql error"
      [] OTHER -> "Object of type int64 is not JSON serializable"

\* The raw datasets of a run: one that cleans, and one whose categorical
\* column has no text in it, on which Series.str raises.
RunSchemas(e) ==
    CASE e = "customers" ->
           { [customer_id |-> {Whole(1)}, status |-> {Str(<<"A", "C", "T", "I", "V", "E">>), Whole(1)}] }
      [] e = "orders" ->
           { [order_id |-> {Str(<<"a">>)}, status |-> {Null, Str(<<"S", "h", "i", "p", "p", "e", "d">>)}] }
      [] e = "products" ->
           { [product_id |-> {Str(<<"a">>)}, category |-> {Str(<<"E", "l", "e", "c">>), Whole(1)}] }
      [] OTHER ->
           { [transaction_ref |-> {Str(<<"a">>)}, payment_status |-> {Null, Str(<<"C", "o", "m", "p", "l", "e", "t", "e">>)}] }

\* The frames the loader may build for an entity.
RunFrames(e) ==
    UNION {{MakeFrame(DOMAIN sc, rows, FromCsv(e)) :
              rows \in UNION {[1..n -> RowsOf(sc)] : n \in 1..MaxRunRows}} :
           sc \in RunSchemas(e)}

\* run with the exception of `step` (raised at `at`): the attempt is over
\* and control goes to the except clause of run_pipeline.
Raise(r, step, at) ==
    [r EXCEPT !.rpc = "except",
              !.exc = [step |-> step, at |-> at, cause |-> Cause(step)],
              !.trace = Append(@, [step |-> step, at |-> at, ok |-> FALSE])]

\* run with a step that returned.
Done(r, step, at) == [r EXCEPT !.trace = Append(@, [step |-> step, at |-> at, ok |-> TRUE])]

InitRun ==
    /\ entity = "none"
    /\ raw = NoFrame
    /\ df = NoFrame
    /\ pc = "idle"
    /\ stages = <<>>
    /\ pass = 1
    /\ out1 = NoFrame
    /\ \E stored \in {Absent, Previous} :
         run = [rpc     |-> "load_raw",
                runs    |-> 1,
                rawData |-> [e \in Entities |-> NoFrame],
                cleaned |-> [e \in Entities |-> NoFrame],
                conn    |-> "none",
                db0     |-> [t \in Tables |-> stored],
                db      |-> [t \in Tables |-> stored],
                next    |-> 1,
                calls   |-> <<>>,
                errors  |-> <<>>,
                trace   |-> <<>>,
                exc     |-> NoException,
                report  |-> "untouched"]

\* _load_raw_data (lines 660-702) and the entry of _clean_data: reading one
\* of the four files raises, which is logged and re-raised, or all four
\* datasets are read and clean_customers_data is called on the first.
LoadRawData ==
    /\ run.rpc = "load_raw"
    /\ \/ /\ \E e \in Entities :
               run' = Raise([run EXCEPT !.errors =
                               Append(@, [msg |-> "Error loading data", entity |-> e,
                                          cause |-> Cause("load_raw")])],
                            "load_raw", e)
          /\ UNCHANGED <<entity, raw, df, pc, stages>>
       \/ /\ \E data \in IF run.runs > 1
                           THEN {run.rawData}
                           ELSE {f \in [Entities -> UNION {RunFrames(e) : e \in Entities}] :
                                   \A e \in Entities : f[e] \in RunFrames(e)} :
               /\ run' = Done([run EXCEPT !.rawData = data, !.rpc = "clean"],
                               "load_raw", "all")
               /\ entity' = CleanOrder[1]
               /\ raw' = data[CleanOrder[1]]
               /\ df' = data[CleanOrder[1]]
          /\ pc' = "start"
          /\ stages' = <<>>
    /\ UNCHANGED <<pass, out1>>

\* The position of an entity in CleanOrder.
CleanIndex(e) == CHOOSE k \in 1..Len(CleanOrder) : CleanOrder[k] = e

\* A clean_* function returns (lines 711-716): its result goes into
\* cleaned_data, and the next clean_* function is called or, after the last,
\* _clean_data returns to run_pipeline.
CleanReturn ==
    /\ run.rpc = "clean"
    /\ pc = "done"
    /\ LET k == CleanIndex(entity)
       IN  IF k < Len(CleanOrder)
             THEN /\ run' = Done([run EXCEPT !.cleaned[entity] = df], "clean", entity)
                  /\ entity' = CleanOrder[k + 1]
                  /\ raw' = run.rawData[CleanOrder[k + 1]]
                  /\ df' = run.rawData[CleanOrder[k + 1]]
                  /\ pc' = "start"
                  /\ stages' = <<>>
             ELSE /\ run' = Done([run EXCEPT !.cleaned[entity] = df,
                                              !.rpc = "create_database"], "clean", entity)
                  /\ entity' = "none"
                  /\ raw' = NoFrame
                  /\ df' = NoFrame
                  /\ pc' = "idle"
                  /\ stages' = <<>>
    /\ UNCHANGED <<pass, out1>>

\* CleanRaise with the exception caught in _clean_data: the entity is
\* skipped and the run goes on.
CleanRaiseSwallowed ==
    /\ run.rpc = "clean"
    /\ pc = "raised"
    /\ LET k == CleanIndex(entity)
           r == [run EXCEPT !.exc = [step |-> "clean", at |-> entity,
                                     cause |-> Cause("clean")]]
       IN  IF k < Len(CleanOrder)
             THEN /\ run' = r
                  /\ entity' = CleanOrder[k + 1]
                  /\ raw' = run.rawData[CleanOrder[k + 1]]
                  /\ df' = run.rawData[CleanOrder[k + 1]]
                  /\ pc' = "start"
                  /\ stages' = <<>>
             ELSE /\ run' = [r EXCEPT !.rpc = "create_database"]
                  /\ entity' = "none"
                  /\ raw' = NoFrame
                  /\ df' = NoFrame
                  /\ pc' = "idle"
                  /\ stages' = <<>>
    /\ UNCHANGED <<pass, out1>>

\* A clean_* function raises: nothing in _clean_data catches it, so it
\* leaves _clean_data and reaches the except clause of run_pipeline.
CleanRaise ==
    /\ run.rpc = "clean"
    /\ pc = "raised"
    /\ run' = Raise(run, "clean", entity)
    /\ UNCHANGED <<entity, raw, df, pc, stages, pass, out1>>

\* The tables after the CREATE TABLE IF NOT EXISTS of the first k tables.
CreateTables(db, k) ==
    [t \in Tables |->
       IF db[t].state = "absent" /\ \E j \in 1..k : LoadOrder[j].table = t
         THEN Created ELSE db[t]]

\* DatabaseManager.create_database (lines 462-477): sqlite3.connect raises
\* and conn stays None; or the connection is open and one of the CREATE
\* statements raises after k tables; or the schema is there.
CreateDatabase ==
    /\ run.rpc = "create_database"
    /\ LET called == [run EXCEPT !.calls = Append(@, <<"create_database">>)]
       IN  \/ run' = Raise(called, "create_database", "connect")
           \/ \E k \in 0..Len(LoadOrder) :
                run' = Raise([called EXCEPT !.conn = "open",
                                            !.db = CreateTables(run.db, k)],
                             "create_database", "schema")
           \/ run' = Done([called EXCEPT !.conn = "open",
                                         !.db = CreateTables(run.db, Len(LoadOrder)),
                                         !.rpc = "load", !.next = 1],
                           "create_database", "schema")
    /\ UNCHANGED <<entity, raw, df, pc, stages, pass, out1>>

\* df.to_sql(table_name, conn, if_exists='append'): the rows of the frame
\* are added to those the table holds.
ToSqlAppending(old, d) ==
    Loaded([dtype |-> d.dtype, rows |-> old.data.rows \o d.rows])

\* df.to_sql(table_name, conn, if_exists='replace', index=False) (line 611):
\* the table is dropped and created again from the frame, so it holds the
\* rows of the frame and nothing of what it held.
ToSql(old, d) == Loaded(d)

\* LoadData inside one transaction for the run: a failure takes every table
\* back to what the run found.
LoadDataRollingBack ==
    /\ run.rpc = "load"
    /\ LET t == LoadOrder[run.next].table
           d == run.cleaned[LoadOrder[run.next].from]
           called == [run EXCEPT !.calls = Append(@, <<"load_data", t>>)]
           failed == [called EXCEPT !.errors =
                        Append(@, [msg |-> "Error loading data into", entity |-> t,
                                   cause |-> Cause("load_data")])]
       IN  \/ run' = Done([called EXCEPT !.db[t] = ToSql(run.db[t], d),
                                         !.next = @ + 1,
                                         !.rpc = IF run.next = Len(LoadOrder)
                                                   THEN "report" ELSE "load"],
                           "load_data", t)
           \/ run' = Raise([failed EXCEPT !.db = run.db0], "load_data", t)
    /\ UNCHANGED <<entity, raw, df, pc, stages, pass, out1>>

\* DatabaseManager.load_data (lines 607-616) for the next table of
\* _load_data_to_database: df.to_sql(..., if_exists='replace') drops the
\* table, creates it from the frame and inserts the rows.  When it raises,
\* before the drop, after it, or during the insert, whose transaction is
\* rolled back, the error is logged and re-raised.
LoadData ==
    /\ run.rpc = "load"
    /\ LET t == LoadOrder[run.next].table
           d == run.cleaned[LoadOrder[run.next].from]
           called == [run EXCEPT !.calls = Append(@, <<"load_data", t>>)]
           failed == [called EXCEPT !.errors =
                        Append(@, [msg |-> "Error loading data into", entity |-> t,
                                   cause |-> Cause("load_data")])]
       IN  \/ run' = Done([called EXCEPT !.db[t] = ToSql(run.db[t], d),
                                         !.next = @ + 1,
                                         !.rpc = IF run.next = Len(LoadOrder)
                                                   THEN "report" ELSE "load"],
                           "load_data", t)
           \/ \E left \in {run.db[t], Absent, Created} :
                run' = Raise([failed EXCEPT !.db[t] = left], "load_data", t)
    /\ UNCHANGED <<entity, raw, df, pc, stages, pass, out1>>

\* _generate_summary_report (lines 728-749): the report holds
\* df.isnull().sum().sum(), a numpy int64, for each dataset, and json.dump,
\* called without an encoder for it on the file just opened for writing,
\* raises TypeError.
GenerateSummaryReport ==
    /\ run.rpc = "report"
    /\ run' = Raise([run EXCEPT !.report = "incomplete"], "report", "json.dump")
    /\ UNCHANGED <<entity, raw, df, pc, stages, pass, out1>>

\* HandleFailure without the re-raise: the exception is logged and dropped.
HandleFailureSwallowing ==
    /\ run.rpc = "except"
    /\ run' = [run EXCEPT !.rpc = "finally",
                          !.exc = NoException,
                          !.errors = Append(@, [msg |-> "ETL Pipeline failed",
                                                entity |-> "none",
                                                cause |-> run.exc.cause])]
    /\ UNCHANGED <<entity, raw, df, pc, stages, pass, out1>>

\* The except clause of run_pipeline (lines 654-656): log
\* f"ETL Pipeline failed: {str(e)}", which names no entity, and re-raise.
HandleFailure ==
    /\ run.rpc = "except"
    /\ run' = [run EXCEPT !.rpc = "finally",
                          !.errors = Append(@, [msg |-> "ETL Pipeline failed",
                                                entity |-> "none",
                                                cause |-> run.exc.cause])]
    /\ UNCHANGED <<entity, raw, df, pc, stages, pass, out1>>

\* CloseConnection in a run_pipeline without the finally clause: the
\* connection is left as it is.
CloseConnectionSkipped ==
    /\ run.rpc = "finally"
    /\ run' = [run EXCEPT !.rpc = IF run.exc = NoException THEN "returned" ELSE "raised"]
    /\ UNCHANGED <<entity, raw, df, pc, stages, pass, out1>>

\* The finally clause of run_pipeline (line 658) and close_connection
\* (lines 618-622); then the exception, if one is in flight, leaves
\* run_pipeline, and else run_pipeline returns.
CloseConnection ==
    /\ run.rpc = "finally"
    /\ run' = [run EXCEPT !.rpc = IF run.exc = NoException THEN "returned" ELSE "raised",
                          !.calls = Append(@, <<"close_connection">>),
                          !.conn = IF run.conn = "open" THEN "closed" ELSE @]
    /\ UNCHANGED <<entity, raw, df, pc, stages, pass, out1>>

\* The except clause of main (lines 761-764): print, log and re-raise.
MainFailed ==
    /\ run.rpc = "raised"
    /\ run' = [run EXCEPT !.rpc = "exit",
                          !.errors = Append(@, [msg |-> "Pipeline failed",
                                                entity |-> "none",
                                                cause |-> run.exc.cause])]
    /\ UNCHANGED <<entity, raw, df, pc, stages, pass, out1>>

\* The script is run again (lines 766-767) on the same raw files and the
\* same database file, after a run that loaded all four tables: a new
\* ETLPipeline, whose _load_raw_data reads what the last run read.
RunAgain ==
    /\ run.rpc = "exit"
    /\ run.exc.step = "report"
    /\ run.runs < MaxRuns
    /\ run' = [run EXCEPT !.rpc = "load_raw",
                          !.runs = @ + 1,
                          !.cleaned = [e \in Entities |-> NoFrame],
                          !.conn = "none",
                          !.db0 = run.db,
                          !.next = 1,
                          !.calls = <<>>,
                          !.errors = <<>>,
                          !.trace = <<>>,
                          !.exc = NoException,
                          !.report = "untouched"]
    /\ UNCHANGED <<entity, raw, df, pc, stages, pass, out1>>

NextRun ==
    \/ LoadRawData \/ Stage \/ CleanReturn \/ CleanRaise
    \/ CreateDatabase \/ LoadData \/ GenerateSummaryReport
    \/ HandleFailure \/ CloseConnection \/ MainFailed \/ RunAgain

SpecRun == InitRun /\ [][NextRun]_vars

\* What the clean_* function of an entity returns for a dataset it does not
\* raise on.
CleanedBy(e, d) ==
    CASE e = "customers" ->
           RemoveCustomerDuplicates(HandleCustomerMissingValues(
             NormalizeCustomerCategoricals(StandardizeCustomerDataTypes(
               MergeRedundantFields(d, CustomersFieldMappings)))))
      [] e = "orders" ->
           RemoveOrdersDuplicates(HandleOrdersMissingValues(
             NormalizeOrdersCategoricals(StandardizeOrdersDataTypes(
               MergeRedundantFields(d, OrdersFieldMappings)))))
      [] e = "products" ->
           RemoveProductsDuplicates(HandleProductsMissingValues(
             NormalizeProductsCategoricals(StandardizeProductsDataTypes(
               MergeRedundantFields(d, ProductsFieldMappings)))))
      [] OTHER ->
           RemoveReconciliationDuplicates(HandleReconciliationMissingValues(
             NormalizeReconciliationCategoricals(StandardizeReconciliationDataTypes(d))))

\* C20: a failure while cleaning one entity neither corrupts nor partially
\* writes the data of the others.  Once the cleaning of an entity has raised
\* in a run_pipeline call, to the end of that call: create_database and
\* load_data are not called, every stored table is as the run found it, and
\* the cleaned dataset of every entity cleaned before the failing one is
\* still what its clean_* function returned.
C20_CleaningFailureWritesNothing ==
    run.exc.step = "clean" =>
      /\ \A k \in 1..Len(run.calls) :
           run.calls[k][1] \notin {"create_database", "load_data"}
      /\ run.db = run.db0
      /\ run.conn = "none"
      /\ \A k \in 1..Len(CleanOrder) :
           IF k < CleanIndex(run.exc.at)
             THEN run.cleaned[CleanOrder[k]] = CleanedBy(CleanOrder[k], run.rawData[CleanOrder[k]])
             ELSE run.cleaned[CleanOrder[k]] = NoFrame

\* A run ended after clean_products_data raised, with customers and orders
\* cleaned and tables of an earlier run in the database.
C20_Witness ==
    /\ run.rpc = "exit"
    /\ run.exc.step = "clean"
    /\ run.exc.at = "products"
    /\ run.cleaned["customers"] # NoFrame
    /\ run.cleaned["orders"] # NoFrame
    /\ \A t \in Tables : run.db[t] = Previous

\* C21: failures are reported with the entity name.  Whenever the cleaning
\* of an entity has failed in a run and run_pipeline has reported the
\* failure, the report (the error it logs, and main after it) names the
\* entity whose cleaning failed and gives the underlying cause.
C21_FailureNamesEntity ==
    run.exc.step = "clean" /\ run.rpc \in {"finally", "raised", "exit"} =>
      \E k \in 1..Len(run.errors) :
        /\ run.errors[k].msg = "ETL Pipeline failed"
        /\ run.errors[k].entity = run.exc.at
        /\ run.errors[k].cause = run.exc.cause

\* C22: a failure of any step fails the whole run.  Once a step of
\* run_pipeline (the raw load, a cleaning, the database creation, a table
\* load, the summary report) has failed: it is the last step the run
\* attempts; its exception is the one run_pipeline logs and re-raises and
\* main logs in turn; run_pipeline never returns normally, which is the only
\* way to the success messages of lines 652 and 756; and no step is
\* attempted twice in a run.
C22_AnyFailureFailsRun ==
    /\ \A k \in 1..Len(run.trace) :
         ~run.trace[k].ok =>
           /\ k = Len(run.trace)
           /\ run.exc.step = run.trace[k].step
           /\ run.exc.at = run.trace[k].at
           /\ run.rpc \in {"except", "finally", "raised", "exit"}
           /\ run.rpc # "except" =>
                \E j \in 1..Len(run.errors) :
                  run.errors[j].msg = "ETL Pipeline failed"
           /\ run.rpc = "exit" =>
                \E j \in 1..Len(run.errors) : run.errors[j].msg = "Pipeline failed"
    /\ \A i, j \in 1..Len(run.trace) :
         i < j => <<run.trace[i].step, run.trace[i].at>>
                    # <<run.trace[j].step, run.trace[j].at>>
    /\ \A i, j \in 1..Len(run.calls) : i < j => run.calls[i] # run.calls[j]

C22_Witness ==
    /\ run.rpc = "exit"
    /\ run.exc.step = "load_data"
    /\ run.exc.at = "orders"
    /\ Len(run.trace) = 9

\* The position of a table in LoadOrder.
LoadIndex(t) == CHOOSE k \in 1..Len(LoadOrder) : LoadOrder[k].table = t

\* C23: storage is not transactional across entities.  Once load_data has
\* failed for a table in a run, to the end of the run: every table loaded
\* before it holds the rows this run loaded into it, no table after it in
\* the load order is loaded (load_data is not called for it and it is as
\* create_database left it), and the summary report is not written.
C23_NoRollbackAcrossTables ==
    run.exc.step = "load_data" =>
      LET k == LoadIndex(run.exc.at)
      IN  /\ \A j \in 1..Len(LoadOrder) :
               LET t == LoadOrder[j].table
               IN  /\ j < k => run.db[t] = Loaded(run.cleaned[LoadOrder[j].from])
                   /\ j > k =>
                        /\ run.db[t] = CreateTables(run.db0, Len(LoadOrder))[t]
                        /\ \A c \in 1..Len(run.calls) : run.calls[c] # <<"load_data", t>>
          /\ run.report = "untouched"

C23_Witness ==
    /\ run.rpc = "exit"
    /\ run.exc.step = "load_data"
    /\ run.exc.at = "orders"
    /\ run.db0["customers"] = Previous
    /\ run.db["customers"].state = "loaded"
    /\ run.db["products"].state = "loaded"
    /\ run.db["reconciliation_data"] = Previous

C25_RawUntouched == [][raw' # raw => pc = "done" /\ pc' = "start"]_vars

C25_Witness ==
    /\ pc = "done"
    /\ pass = 1
    /\ df # raw
    /\ Len(stages) >= 4

\* C26: the tables are loaded in a fixed order.  The load_data calls of a
\* run are, in order, a prefix of customers, products, orders,
\* reconciliation_data; and load_data is called for orders only after the
\* loads of customers and of products have both succeeded in the same run.
C26_LoadOrderFixed ==
    LET IsLoad(c) == c[1] = "load_data"
        loads == SelectSeq(run.calls, IsLoad)
        fixed == <<"customers", "products", "orders", "reconciliation_data">>
    IN  /\ Len(loads) <= Len(fixed)
        /\ \A k \in 1..Len(loads) : loads[k] = <<"load_data", fixed[k]>>
        /\ (\E k \in 1..Len(loads) : loads[k][2] = "orders") =>
             \A t \in {"customers", "products"} :
               /\ \E i \in 1..Len(run.trace) :
                    run.trace[i] = [step |-> "load_data", at |-> t, ok |-> TRUE]
               /\ run.db[t].state = "loaded"

C26_Witness ==
    /\ run.rpc = "report"
    /\ Len(run.calls) = 5
    /\ run.calls[4] = <<"load_data", "orders">>
    /\ run.db["orders"].state = "loaded"

\* C27: the connection is always released.  When run_pipeline has
\* terminated, by return or by exception, a connection create_database had
\* opened has been closed by close_connection, called last; and every
\* load_data call of a run is made on the open connection, after
\* create_database and before close_connection.
C27_ConnectionReleased ==
    /\ run.rpc \in {"returned", "raised", "exit"} =>
         /\ run.conn # "open"
         /\ Len(run.calls) > 0
         /\ run.calls[Len(run.calls)] = <<"close_connection">>
         /\ (\E i \in 1..Len(run.trace) :
               run.trace[i].step = "create_database" /\ run.trace[i].at = "schema")
              => run.conn = "closed"
    /\ run.rpc = "load" => run.conn = "open"
    /\ \A k \in 1..Len(run.calls) :
         run.calls[k][1] = "load_data" =>
           /\ \E i \in 1..(k - 1) : run.calls[i] = <<"create_database">>
           /\ \A i \in 1..(k - 1) : run.calls[i] # <<"close_connection">>

C27_Witness ==
    /\ run.rpc = "exit"
    /\ run.exc.step = "load_data"
    /\ run.conn = "closed"
    /\ Len(run.calls) = 4

(* --------------- null tokens in a canonical column --------------------- *)

\* Inputs of the clean_* functions with a canonical field and one of its
\* synonyms, the canonical cell holding a null token, a value or nothing.
BlockedSchemas(e) ==
    CASE e = "customers" ->
           { [customer_id |-> {Whole(1), Whole(2)},
              email |-> {Str(<<"N", "/", "A">>), Str(<<>>), Str(<<"a">>)},
              email_address |-> {Null, Str(<<"b">>)}] }
      [] e = "orders" ->
           { [order_id |-> {Str(<<"a">>), Str(<<"b">>)},
              quantity |-> {Null, Str(<<"N", "/", "A">>), Whole(3)},
              qty |-> {Null, Whole(2)}] }
      [] OTHER ->
           { [product_id |-> {Str(<<"a">>), Str(<<"b">>)},
              brand |-> {Str(<<"N", "/", "A">>), Str(<<"N", "U", "L", "L">>), Str(<<"x">>)},
              manufacturer |-> {Null, Str(<<"m">>)}],
             [product_id |-> {Str(<<"a">>), Str(<<"b">>)},
              category |-> {Str(<<"N", "A">>), Str(<<"E", "l", "e", "c">>)},
              product_category |-> {Null, Str(<<"T", "o", "y", "s">>)}] }

InitBlocked ==
    /\ entity \in {"customers", "orders", "products"}
    /\ IsFrameOver(raw, BlockedSchemas(entity), MaxRows, FromCsv(entity))
    /\ df = raw
    /\ pc = "start"
    /\ stages = <<>>
    /\ pass = 1
    /\ out1 = NoFrame
    /\ run = NotRunning

NextBlocked ==
    \/ CustomersMerge \/ CustomersStandardize \/ CustomersNormalize
    \/ CustomersHandleMissing \/ CustomersRemoveDuplicates
    \/ OrdersMerge \/ OrdersStandardize \/ OrdersNormalize
    \/ OrdersHandleMissing \/ OrdersRemoveDuplicates
    \/ ProductsMerge \/ ProductsStandardize \/ ProductsNormalize
    \/ ProductsHandleMissing \/ ProductsRemoveDuplicates

SpecBlocked == InitBlocked /\ [][NextBlocked]_vars

\* The value the cleaner gives a canonical field that has none.
FixedDefault(e, c) ==
    IF e = "orders" /\ c = "quantity" THEN {Whole(1)}
    ELSE IF e = "products" /\ c = "stock_quantity" THEN {Whole(0)}
    ELSE IF c \in CategoricalFields(e) THEN {Str(DefaultOf(e, c))}
    ELSE {}

\* Row i of the input holds a null token in canonical column c and a value
\* in its synonym s.
IsBlockedCell(i, c, s) ==
    /\ c \in Cols(raw)
    /\ s \in Cols(raw)
    /\ s # c
    /\ raw.rows[i][c].t = "str"
    /\ raw.rows[i][c].s \in NullVariants
    /\ NotNa(raw.rows[i][s])

\* C28: a null token in the canonical column blocks the synonym.  For every
\* row whose canonical cell holds a null-token string while the synonym cell
\* holds a value: the Field Unifier leaves the canonical cell as it is, and
\* after the Missing-Value Resolver and in the output (no row having been
\* dropped) the canonical cell is null or the fixed default of its field,
\* and is not the synonym's value.
C28_NullTokenBlocksSynonym ==
    pc \in {"merged", "resolved", "done"} /\ Len(df.rows) = Len(raw.rows) =>
      \A k \in 1..Len(FieldMappings(entity)) : \A i \in 1..Len(raw.rows) :
        LET m == FieldMappings(entity)[k]
        IN  \A j \in 1..Len(m.sources) :
              IsBlockedCell(i, m.target, m.sources[j]) =>
                /\ pc = "merged" => df.rows[i][m.target] = raw.rows[i][m.target]
                /\ pc # "merged" =>
                     /\ df.rows[i][m.target] \in {Null} \cup FixedDefault(entity, m.target)
                     /\ df.rows[i][m.target] # raw.rows[i][m.sources[j]]

\* The rows of d, among those at the positions in `among`, that have no
\* earlier row among them with the same key on the columns of subset.
SurvivorsOf(d, among, subset) ==
    {i \in among : ~\E j \in among : j < i /\ SameKey(d, subset, j, i)}

\* The k-th smallest of a set of positions.
KthOf(positions, k) ==
    CHOOSE i \in positions : Cardinality({j \in positions : j <= i}) = k

\* C29: the key steps of the customers Duplicate Collapser act on the
\* survivors of the step before.  With E the rows left by the
\* exact-duplicate step and M those of E left by the email step, the output
\* holds exactly the rows of M that have no earlier row in M with the same
\* customer_id (two missing customer_ids being the same), so a row whose
\* earlier rows with its customer_id were all removed before the
\* customer_id step stays; the rows are in their original order with their
\* cell values.
C29_DedupStepsSequential ==
    pc = "done" =>
      LET E == SurvivorsOf(raw, 1..Len(raw.rows), Cols(raw))
          M == IF "email" \in Cols(raw) THEN SurvivorsOf(raw, E, {"email"}) ELSE E
          K == IF "customer_id" \in Cols(raw)
                 THEN SurvivorsOf(raw, M, {"customer_id"}) ELSE M
      IN  /\ Len(df.rows) = Cardinality(K)
          /\ \A n \in 1..Len(df.rows) : df.rows[n] = raw.rows[KthOf(K, n)]
          /\ df.dtype = raw.dtype

C29_Witness ==
    /\ pc = "done"
    /\ Cols(raw) = {"email", "customer_id", "full_name"}
    /\ Len(raw.rows) = 3
    /\ raw.rows[1]["email"] = raw.rows[2]["email"]
    /\ raw.rows[1]["customer_id"] = Whole(1)
    /\ raw.rows[2]["customer_id"] = Whole(2)
    /\ raw.rows[3]["customer_id"] = Whole(2)
    /\ raw.rows[3]["email"] # raw.rows[1]["email"]
    /\ df.rows = <<raw.rows[1], raw.rows[3]>>

\* C30: in the products pipeline a missing is_active always ends as false.
\* From the Type Coercer on no is_active cell is missing, so when
\* _handle_products_missing_values runs its fillna(True) finds nothing to
\* fill: up to the Duplicate Collapser every cell is what the Type Coercer
\* made of the raw cell, false when the raw cell was missing or is no key of
\* the mapping, and in the output (no row having been dropped) such a
\* product is not active.
C30_MissingIsActiveEndsFalse ==
    entity = "products" /\ pass = 1 /\ "is_active" \in Cols(raw) =>
      /\ pc \in {"typed", "normalized", "resolved"} =>
           \A i \in 1..Len(df.rows) :
             /\ NotNa(df.rows[i]["is_active"])
             /\ df.rows[i]["is_active"] =
                  (IF IsNa(IsActiveMap(raw.rows[i]["is_active"]))
                     THEN Bool(FALSE)
                     ELSE IsActiveMap(raw.rows[i]["is_active"]))
      /\ pc = "done" /\ Len(df.rows) = Len(raw.rows) =>
           \A i \in 1..Len(df.rows) :
             IsNa(IsActiveMap(raw.rows[i]["is_active"])) =>
               df.rows[i]["is_active"] = Bool(FALSE)

C30_Witness ==
    /\ entity = "products"
    /\ pass = 1
    /\ pc = "done"
    /\ Len(raw.rows) = 2
    /\ Len(df.rows) = 2
    /\ "is_active" \in Cols(raw)
    /\ IsNa(raw.rows[1]["is_active"])
    /\ raw.rows[2]["is_active"] = Str(<<"Y", "E", "S">>)
    /\ df.rows[1]["is_active"] = Bool(FALSE)
    /\ df.rows[2]["is_active"] = Bool(FALSE)

====
